---- MODULE Spec2Model ----
(***************************************************************************)
(* Build pipeline of KnowledgeBaseBuilder (build_knowledge_base.py):       *)
(* build_vector_store loads the two source files, merges and chunks the    *)
(* documents, embeds and upserts them into the persisted Chroma collection *)
(* and writes build_stats.json.                                            *)
(***************************************************************************)
EXTENDS Integers, Sequences, FiniteSets, TLC

\* ------------------------------------------------------------------ bounds
MaxFewQueries == 2      \* small query files hold 0..MaxFewQueries records
MaxOver == 1            \* large query files hold up to threshold + MaxOver records
MaxTables == 2          \* CREATE TABLE blocks in the schema file
MaxBatchSize == 104     \* largest batch_size tried in the single-run specification
MaxRuns == 2            \* calls of build_vector_store on one persisted directory

\* ------------------------------------------------------- program constants
SMALL_DATASET_THRESHOLD == 100      \* len(final_documents) <= 100
DEFAULT_BATCH_SIZE == 100           \* batch_size: int = 100
HELP_BATCH_SIZE == 50               \* "--batch-size 50" of the usage text
chunk_size == 2000                  \* chunk_size: int = 2000
chunk_overlap == 200                \* chunk_overlap: int = 200
ShortLen == 1000                    \* rendered length of an ordinary document

NoFile == [exists |-> FALSE]
\* what a call of build_vector_store hands to its caller
NoneValue == [kind |-> "None"]
VectorStore == [kind |-> "vectorstore"]
Raised == [kind |-> "exception"]

Min(a, b) == IF a <= b THEN a ELSE b

CeilDiv(a, b) == (a + b - 1) \div b

\* --------------------------------------------------------------- documents
\* hashlib.md5(content).hexdigest(): a digest of the rendered content only.
\* The rendered content of a document is determined by its category, its
\* natural key and the version of its text; the digest is coded as a number.
_calculate_content_hash(content) ==
    (IF content[1] = "business_query" THEN 1000 ELSE 2000)
        + 10 * content[2] + content[3]

QueryDocumentMutant(query_id, ver, len, now) ==
    [type |-> "business_query", key |-> query_id, ver |-> ver, len |-> len,
     part |-> 0,
     content_hash |-> _calculate_content_hash(<<"business_query", query_id,
                                                ver + now>>),
     created_at |-> now]

\* Document(page_content=..., metadata={...}) of load_query_documents
QueryDocument(query_id, ver, len, now) ==
    [type |-> "business_query", key |-> query_id, ver |-> ver, len |-> len,
     part |-> 0,
     content_hash |-> _calculate_content_hash(<<"business_query", query_id, ver>>),
     created_at |-> now]

\* Document(page_content=..., metadata={...}) of load_schema_documents
SchemaDocument(table, len, now) ==
    [type |-> "table_schema", key |-> table, ver |-> 0, len |-> len,
     part |-> 0,
     content_hash |-> _calculate_content_hash(<<"table_schema", table, 0>>),
     created_at |-> now]

\* ------------------------------------------------------------ source files
QueryCounts ==
    (0 .. MaxFewQueries)
        \cup ((SMALL_DATASET_THRESHOLD - 1) .. (SMALL_DATASET_THRESHOLD + MaxOver))

\* lengths of the first document of a file: at, just above and well above
\* the chunk size
FirstLens == {chunk_size, chunk_size + 1, 2 * chunk_size - 100}

QueryFiles ==
    {[status |-> s, n |-> 0, ver |-> 0, len1 |-> ShortLen] :
        s \in {"missing", "invalid_json", "unreadable"}}
    \cup {[status |-> "ok", n |-> 0, ver |-> 0, len1 |-> ShortLen]}
    \cup {[status |-> "ok", n |-> k, ver |-> 0, len1 |-> l] :
            k \in QueryCounts \ {0}, l \in FirstLens}

SchemaFiles ==
    {[status |-> s, n |-> 0, len1 |-> ShortLen] : s \in {"missing", "unreadable"}}
    \cup {[status |-> "ok", n |-> 0, len1 |-> ShortLen]}
    \cup {[status |-> "ok", n |-> k, len1 |-> l] :
            k \in 1 .. MaxTables, l \in {chunk_size, chunk_size + 1}}

\* batch sizes of the multi-run specification
FewBatchSizes ==
    {-1, 0, HELP_BATCH_SIZE, DEFAULT_BATCH_SIZE, DEFAULT_BATCH_SIZE + 1}

\* batch sizes of the single-run specification
AllBatchSizes == 1 .. MaxBatchSize

NoSnapshot ==
    [index |-> <<>>, stats_file |-> NoFile, pc |-> "IDLE", sources |-> <<>>,
     stats |-> [total_documents |-> 0, query_documents |-> 0,
                schema_documents |-> 0, chunks_created |-> 0]]

InitialStats ==
    [total_documents |-> 0, query_documents |-> 0, schema_documents |-> 0,
     chunks_created |-> 0]

VARIABLES
    batch_size,        \* self.batch_size
    stats,             \* self.stats
    query_file,        \* the query JSON file on disk
    schema_file,       \* the schema SQL file on disk
    dir_exists,        \* self.persist_directory.exists()
    index,             \* entries of the persisted Chroma collection, in insertion order
    stats_file,        \* build_stats.json in the persisted directory
    pc,                \* phase of the current build run
    trace,             \* phases entered by the current run, in order
    run,               \* number of build_vector_store calls so far
    force_rebuild,     \* argument of the current call
    all_documents,     \* local all_documents
    final_documents,   \* local final_documents
    path,              \* "fast" (from_documents) or "batch" (add_documents loop)
    i,                 \* loop variable of the batch loop
    calls,             \* batches successfully upserted by the current run
    attempts,          \* upsert calls started by the current run
    embedded,          \* documents handed to the embedding service by the current run
    progress_log,      \* (processed, total) pairs printed by the batch loop
    stats_writes,      \* writes of build_stats.json by the current run
    ret,               \* value returned by the current call
    sources_read,      \* the source files as the current run read them
    before,            \* snapshot taken when the current call started
    server_module,     \* the retrieval server that is running
    TABLE_VECTORSTORE, \* module global: the table collection, or None
    QUERY_VECTORSTORE, \* module global: the requirement collection, or None
    VECTORSTORE,       \* module global of knowledge_base_mcp_server
    kb_paths,          \* the two collection directories: when the server was created, and now
    request,           \* the tool call being answered
    store_call,        \* the search the tool sent to the vector store, if any
    response,          \* what the tool call handed back
    propagated,        \* sources of the exceptions that have left a tool
    answers,           \* how each tool call so far ended, in order
    formatter,         \* the formatter function under study
    results,           \* its argument: (document, score) pairs
    result_text,       \* the text it returned
    schema_text,       \* content of a schema SQL file
    documents,         \* what load_schema_documents made of it
    parsed,            \* load_schema_documents has returned
    page_content,      \* doc.page_content of a document of the chunk loop
    chunks,            \* the final documents made of it, as parts of page_content
    split_done,        \* the chunk loop has handled the document
    sql,               \* the sql text of a query record
    tables,            \* what _extract_tables_from_sql returned for it
    extracted,         \* _extract_tables_from_sql has returned
    query_data,        \* content of query_business_requirements.json
    meta_data,         \* content of singabi_meta_tables.json
    dict_data,         \* content of singabi_data_dictionary.json
    query_kb,          \* documents of the query_requirements_kb collection
    table_kb,          \* documents of the meta_tables_kb collection
    main_pc            \* position of main of build_knowledge_base_enhanced

build_vars == <<batch_size, stats, query_file, schema_file, dir_exists, index,
                stats_file, pc, trace, run, force_rebuild, all_documents,
                final_documents, path, i, calls, attempts, embedded,
                progress_log, stats_writes, ret, sources_read, before>>

retrieval_vars == <<server_module, TABLE_VECTORSTORE, QUERY_VECTORSTORE,
                    VECTORSTORE, kb_paths, request, store_call, response, propagated,
                    answers>>

formatter_vars == <<formatter, results, result_text>>

parser_vars == <<schema_text, documents, parsed>>

splitter_vars == <<page_content, chunks, split_done>>

extractor_vars == <<sql, tables, extracted>>

enhanced_vars == <<query_data, meta_data, dict_data, query_kb, table_kb,
                   main_pc>>

utility_vars == <<splitter_vars, extractor_vars, enhanced_vars>>

vars == <<build_vars, retrieval_vars, formatter_vars, parser_vars,
          utility_vars>>

\* no request, no search, no response yet
NoRequest == [tool |-> "none"]
NoStoreCall == [store |-> "none"]
NoResponse == [kind |-> "none"]

\* no retrieval server is running
\* no collection directory has been looked at
NoPaths ==
    [created |-> [tables |-> "none", requirements |-> "none"],
     now |-> [tables |-> "none", requirements |-> "none"]]

RetrievalIdle ==
    /\ server_module = "none"
    /\ kb_paths = NoPaths
    /\ TABLE_VECTORSTORE = NoneValue
    /\ QUERY_VECTORSTORE = NoneValue
    /\ VECTORSTORE = NoneValue
    /\ request = NoRequest
    /\ store_call = NoStoreCall
    /\ response = NoResponse
    /\ propagated = {}
    /\ answers = <<>>

\* no formatter is being called
FormatterIdle ==
    /\ formatter = "none"
    /\ results = <<>>
    /\ result_text = NoResponse

\* no schema text is being parsed
ParserIdle ==
    /\ schema_text = <<>>
    /\ documents = <<>>
    /\ parsed = FALSE

\* no document is in the chunk loop
SplitterIdle ==
    /\ page_content = <<>>
    /\ chunks = <<>>
    /\ split_done = FALSE

\* no sql text is being read
ExtractorIdle ==
    /\ sql = <<>>
    /\ tables = <<>>
    /\ extracted = FALSE

\* build_knowledge_base_enhanced is not running
EnhancedIdle ==
    /\ query_data = <<>>
    /\ meta_data = <<>>
    /\ dict_data = <<>>
    /\ query_kb = <<>>
    /\ table_kb = <<>>
    /\ main_pc = "none"

UtilityIdle == SplitterIdle /\ ExtractorIdle /\ EnhancedIdle

\* no KnowledgeBaseBuilder is at work
BuildIdle ==
    /\ batch_size = DEFAULT_BATCH_SIZE
    /\ stats = InitialStats
    /\ query_file = [status |-> "missing", n |-> 0, ver |-> 0, len1 |-> ShortLen]
    /\ schema_file = [status |-> "missing", n |-> 0, len1 |-> ShortLen]
    /\ dir_exists = TRUE
    /\ index = <<>>
    /\ stats_file = NoFile
    /\ pc = "IDLE"
    /\ trace = <<>>
    /\ run = 0
    /\ force_rebuild = FALSE
    /\ all_documents = <<>>
    /\ final_documents = <<>>
    /\ path = "none"
    /\ i = 0
    /\ calls = <<>>
    /\ attempts = 0
    /\ embedded = 0
    /\ progress_log = <<>>
    /\ stats_writes = 0
    /\ ret = NoneValue
    /\ sources_read = <<>>
    /\ before = NoSnapshot

Terminal == {"DONE", "FAILED", "RAISED"}

\* ------------------------------------------------------------------- Init
\* State after KnowledgeBaseBuilder.__init__: the directory exists (mkdir),
\* the statistics are zero, nothing is persisted yet.
InitWith(sizes) ==
    /\ batch_size \in sizes
    /\ stats = InitialStats
    /\ query_file \in QueryFiles
    /\ schema_file \in SchemaFiles
    /\ dir_exists = TRUE
    /\ index = <<>>
    /\ stats_file = NoFile
    /\ pc = "IDLE"
    /\ trace = <<>>
    /\ run = 0
    /\ force_rebuild = FALSE
    /\ all_documents = <<>>
    /\ final_documents = <<>>
    /\ path = "none"
    /\ i = 0
    /\ calls = <<>>
    /\ attempts = 0
    /\ embedded = 0
    /\ progress_log = <<>>
    /\ stats_writes = 0
    /\ ret = NoneValue
    /\ sources_read = <<>>
    /\ before = NoSnapshot
    /\ RetrievalIdle
    /\ FormatterIdle
    /\ ParserIdle
    /\ UtilityIdle

Init == InitWith(FewBatchSizes)

InitBatch == InitWith(AllBatchSizes)

\* ---------------------------------------------------------------- actions
\* build_vector_store(..., force_rebuild=force) is called.
Call(force) ==
    /\ pc \in {"IDLE"} \cup Terminal
    /\ run < MaxRuns
    /\ run' = run + 1
    /\ force_rebuild' = force
    /\ pc' = "INIT"
    /\ trace' = <<"INIT">>
    /\ all_documents' = <<>>
    /\ final_documents' = <<>>
    /\ path' = "none"
    /\ i' = 0
    /\ calls' = <<>>
    /\ attempts' = 0
    /\ embedded' = 0
    /\ progress_log' = <<>>
    /\ stats_writes' = 0
    /\ ret' = NoneValue
    /\ sources_read' = <<>>
    /\ before' = [index |-> index, stats_file |-> stats_file, pc |-> pc,
                  sources |-> sources_read, stats |-> stats]
    /\ UNCHANGED <<batch_size, stats, query_file, schema_file, dir_exists,
                   index, stats_file>>
    /\ UNCHANGED <<retrieval_vars, formatter_vars, parser_vars, utility_vars>>

ShouldClearMutant == dir_exists

\* if force_rebuild and self.persist_directory.exists():

ShouldClear == force_rebuild /\ dir_exists

AtClearCheckMutant == pc \in {"INIT", "LOAD_SOURCES"}

\* the force-rebuild check is the first statement of the run

AtClearCheck == pc = "INIT"

\* CLEAR: shutil.rmtree(self.persist_directory), mkdir
Clear ==
    /\ AtClearCheck
    /\ ShouldClear
    /\ index' = <<>>
    /\ stats_file' = NoFile
    /\ dir_exists' = TRUE
    /\ pc' = "CLEAR"
    /\ trace' = Append(trace, "CLEAR")
    /\ UNCHANGED <<batch_size, stats, query_file, schema_file, run,
                   force_rebuild, all_documents, final_documents, path, i, calls,
                   attempts, embedded, progress_log, stats_writes, ret,
                   sources_read, before>>
    /\ UNCHANGED <<retrieval_vars, formatter_vars, parser_vars, utility_vars>>

\* load_query_documents: [] when the file is missing or is not JSON.
load_query_documents(f, now) ==
    IF f.status = "ok"
    THEN [q \in 1 .. f.n |->
            QueryDocument(q, IF q = 1 THEN f.ver ELSE 0,
                          IF q = 1 THEN f.len1 ELSE ShortLen, now)]
    ELSE <<>>

\* load_schema_documents: [] when the file is missing.
load_schema_documents(f, now) ==
    IF f.status = "ok"
    THEN [t \in 1 .. f.n |->
            SchemaDocument(t, IF t = 1 THEN f.len1 ELSE ShortLen, now)]
    ELSE <<>>

MergeMutant(query_docs, schema_docs) == schema_docs \o query_docs

\* all_documents = query_docs + schema_docs
Merge(query_docs, schema_docs) == query_docs \o schema_docs

NoDocumentsMutant(docs) == FALSE

\* if not all_documents: return None

NoDocuments(docs) == docs = <<>>

\* LOAD_SOURCES: both loaders run, the documents are merged; an unreadable
\* file raises out of the call, an empty merge returns None.
LoadSources ==
    /\ \/ pc = "CLEAR"
       \/ pc = "INIT" /\ ~ShouldClear
    /\ sources_read' = <<query_file, schema_file>>
    /\ LET query_docs == load_query_documents(query_file, run)
           schema_docs == load_schema_documents(schema_file, run)
           merged == Merge(query_docs, schema_docs)
           stats_q == IF query_file.status = "ok"
                      THEN [stats EXCEPT !.query_documents = Len(query_docs)]
                      ELSE stats
           stats_s == IF schema_file.status = "ok"
                      THEN [stats_q EXCEPT !.schema_documents = Len(schema_docs)]
                      ELSE stats_q
       IN  IF query_file.status = "unreadable"
           THEN /\ pc' = "RAISED"
                /\ trace' = trace \o <<"LOAD_SOURCES", "RAISED">>
                /\ ret' = Raised
                /\ UNCHANGED <<stats, all_documents>>
           ELSE IF schema_file.status = "unreadable"
           THEN /\ pc' = "RAISED"
                /\ trace' = trace \o <<"LOAD_SOURCES", "RAISED">>
                /\ ret' = Raised
                /\ stats' = stats_q
                /\ UNCHANGED all_documents
           ELSE /\ stats' = [stats_s EXCEPT !.total_documents = Len(merged)]
                /\ all_documents' = merged
                /\ ret' = NoneValue
                /\ IF NoDocuments(merged)
                   THEN /\ pc' = "FAILED"
                        /\ trace' = trace \o <<"LOAD_SOURCES", "FAILED">>
                   ELSE /\ pc' = "LOAD_SOURCES"
                        /\ trace' = Append(trace, "LOAD_SOURCES")
    /\ UNCHANGED <<batch_size, query_file, schema_file, dir_exists, index,
                   stats_file, run, force_rebuild, final_documents, path, i, calls,
                   attempts, embedded, progress_log, stats_writes, before>>
    /\ UNCHANGED <<retrieval_vars, formatter_vars, parser_vars, utility_vars>>

\* number of chunks the text splitter makes of a text of length len
NumChunks(len) ==
    IF len <= chunk_size THEN 1
    ELSE CeilDiv(len - chunk_overlap, chunk_size - chunk_overlap)

\* text_splitter.split_documents([doc]): the chunks keep the metadata
split_documents(doc) ==
    [p \in 1 .. NumChunks(doc.len) |->
        LET start == (p - 1) * (chunk_size - chunk_overlap)
        IN  [doc EXCEPT !.part = p,
                        !.len = Min(start + chunk_size, doc.len) - start]]

NeedsSplitMutant(doc) == doc.len >= chunk_size

\* if doc_length > chunk_size:
NeedsSplit(doc) == doc.len > chunk_size

\* the chunk loop: documents longer than chunk_size are replaced by their chunks
RECURSIVE ChunkAll(_)
ChunkAll(docs) ==
    IF docs = <<>> THEN <<>>
    ELSE (IF NeedsSplit(Head(docs))
          THEN split_documents(Head(docs))
          ELSE <<Head(docs)>>) \o ChunkAll(Tail(docs))

\* sum(chunk_stats.values()): len(chunks) - 1 for every split document
RECURSIVE ChunksCreated(_)
ChunksCreated(docs) ==
    IF docs = <<>> THEN 0
    ELSE (IF NeedsSplit(Head(docs))
          THEN NumChunks(Head(docs).len) - 1 ELSE 0) + ChunksCreated(Tail(docs))

\* CHUNK
Chunk ==
    /\ pc = "LOAD_SOURCES"
    /\ final_documents' = ChunkAll(all_documents)
    /\ stats' = [stats EXCEPT !.chunks_created = ChunksCreated(all_documents)]
    /\ pc' = "CHUNK"
    /\ trace' = Append(trace, "CHUNK")
    /\ UNCHANGED <<batch_size, query_file, schema_file, dir_exists, index,
                   stats_file, run, force_rebuild, all_documents, path, i, calls,
                   attempts, embedded, progress_log, stats_writes, ret,
                   sources_read, before>>
    /\ UNCHANGED <<retrieval_vars, formatter_vars, parser_vars, utility_vars>>

\* outcomes of one call that embeds and upserts documents
UpsertOutcomes == {"ok", "embedding_error", "store_error"}

FailureResultMutant == VectorStore

\* the except branch ends with: return None
FailureResult == NoneValue

\* except Exception as e: ... return None
Failed(from) ==
    /\ pc' = "FAILED"
    /\ trace' = IF from = pc THEN Append(trace, "FAILED")
                ELSE trace \o <<from, "FAILED">>
    /\ ret' = FailureResult

IndexAfterFailureMutant(idx) == before.index

\* the except branch neither retries nor removes what earlier calls stored
IndexAfterFailure(idx) == idx

IsSmallDatasetMutant(n) == n < SMALL_DATASET_THRESHOLD

\* if len(final_documents) <= 100:
IsSmallDataset(n) == n <= SMALL_DATASET_THRESHOLD

\* EMBED_AND_UPSERT, small data set: Chroma.from_documents(final_documents)
FastPath ==
    /\ pc = "CHUNK"
    /\ IsSmallDataset(Len(final_documents))
    /\ path' = "fast"
    /\ attempts' = attempts + 1
    /\ \E outcome \in UpsertOutcomes :
        IF outcome = "ok"
        THEN /\ embedded' = embedded + Len(final_documents)
             /\ index' = index \o final_documents
             /\ calls' = Append(calls, final_documents)
             /\ pc' = "EMBED_AND_UPSERT"
             /\ trace' = Append(trace, "EMBED_AND_UPSERT")
             /\ UNCHANGED ret
        ELSE /\ embedded' = IF outcome = "store_error"
                            THEN embedded + Len(final_documents) ELSE embedded
             /\ Failed("EMBED_AND_UPSERT")
             /\ index' = IndexAfterFailure(index)
             /\ UNCHANGED calls
    /\ UNCHANGED <<batch_size, stats, query_file, schema_file, dir_exists,
                   stats_file, run, force_rebuild, all_documents,
                   final_documents, i, progress_log, stats_writes,
                   sources_read, before>>
    /\ UNCHANGED <<retrieval_vars, formatter_vars, parser_vars, utility_vars>>

\* EMBED_AND_UPSERT, large data set: the batch count is printed (a division
\* by batch_size, which raises for 0) and the Chroma store is opened
BatchInit ==
    /\ pc = "CHUNK"
    /\ ~IsSmallDataset(Len(final_documents))
    /\ path' = "batch"
    /\ i' = 0
    /\ \E outcome \in {"ok", "store_error"} :
        IF batch_size = 0 \/ outcome = "store_error"
        THEN Failed("EMBED_AND_UPSERT")
        ELSE /\ pc' = "EMBED_AND_UPSERT"
             /\ trace' = Append(trace, "EMBED_AND_UPSERT")
             /\ UNCHANGED ret
    /\ UNCHANGED <<batch_size, stats, query_file, schema_file, dir_exists,
                   index, stats_file, run, force_rebuild, all_documents,
                   final_documents, calls, attempts, embedded, progress_log,
                   stats_writes, sources_read, before>>
    /\ UNCHANGED <<retrieval_vars, formatter_vars, parser_vars, utility_vars>>

\* i in range(0, len(final_documents), self.batch_size) has a next value
InRange(k, n, size) ==
    IF size > 0 THEN k < n ELSE k > n

\* batch = final_documents[i:i + self.batch_size]
Batch(docs, k, size) == SubSeq(docs, k + 1, Min(k + size, Len(docs)))

ProcessedMutant(k, n, size) == k + size

\* processed = min(i + self.batch_size, len(final_documents))
Processed(k, n, size) == Min(k + size, n)

\* one iteration of the batch loop: vectorstore.add_documents(batch)
BatchStep ==
    /\ pc = "EMBED_AND_UPSERT"
    /\ path = "batch"
    /\ InRange(i, Len(final_documents), batch_size)
    /\ attempts' = attempts + 1
    /\ LET batch == Batch(final_documents, i, batch_size)
       IN  \E outcome \in UpsertOutcomes :
            IF outcome = "ok"
            THEN /\ embedded' = embedded + Len(batch)
                 /\ index' = index \o batch
                 /\ calls' = Append(calls, batch)
                 /\ progress_log' =
                        Append(progress_log,
                               <<Processed(i, Len(final_documents), batch_size),
                                 Len(final_documents)>>)
                 /\ i' = i + batch_size
                 /\ UNCHANGED <<pc, trace, ret>>
            ELSE /\ embedded' = IF outcome = "store_error"
                                THEN embedded + Len(batch) ELSE embedded
                 /\ Failed("EMBED_AND_UPSERT")
                 /\ index' = IndexAfterFailure(index)
                 /\ UNCHANGED <<calls, progress_log, i>>
    /\ UNCHANGED <<batch_size, stats, query_file, schema_file, dir_exists,
                   stats_file, run, force_rebuild, all_documents,
                   final_documents, path, stats_writes, sources_read, before>>
    /\ UNCHANGED <<retrieval_vars, formatter_vars, parser_vars, utility_vars>>

UpsertsDoneMutant == pc \in {"CHUNK", "EMBED_AND_UPSERT"}

\* every upsert call of the run has returned
UpsertsDone ==
    /\ pc = "EMBED_AND_UPSERT"
    /\ \/ path = "fast"
       \/ path = "batch" /\ ~InRange(i, Len(final_documents), batch_size)

\* _save_build_stats: json.dump({**self.stats, "last_build": ...})
_save_build_stats(now) ==
    [exists |-> TRUE, stats |-> stats, last_build |-> now]

\* PERSIST_STATS: vectorstore._collection.count(), _save_build_stats(),
\* return vectorstore; an error of either call is caught and returns None
PersistStats ==
    /\ UpsertsDone
    /\ \E outcome \in {"ok", "store_error", "io_error"} :
        IF outcome = "ok"
        THEN /\ stats_file' = _save_build_stats(run)
             /\ stats_writes' = stats_writes + 1
             /\ pc' = "DONE"
             /\ trace' = trace \o <<"PERSIST_STATS", "DONE">>
             /\ ret' = VectorStore
        ELSE /\ Failed("PERSIST_STATS")
             /\ UNCHANGED <<stats_file, stats_writes>>
    /\ UNCHANGED <<batch_size, stats, query_file, schema_file, dir_exists,
                   index, run, force_rebuild, all_documents, final_documents,
                   path, i, calls, attempts, embedded, progress_log,
                   sources_read, before>>
    /\ UNCHANGED <<retrieval_vars, formatter_vars, parser_vars, utility_vars>>

\* between two runs the business_requirement text of one query is edited
EditSource ==
    /\ pc \in Terminal
    /\ query_file.status = "ok" /\ query_file.n >= 1 /\ query_file.ver = 0
    /\ query_file' = [query_file EXCEPT !.ver = 1]
    /\ UNCHANGED <<batch_size, stats, schema_file, dir_exists, index,
                   stats_file, pc, trace, run, force_rebuild, all_documents,
                   final_documents, path, i, calls, attempts, embedded,
                   progress_log, stats_writes, ret, sources_read, before>>
    /\ UNCHANGED <<retrieval_vars, formatter_vars, parser_vars, utility_vars>>

\* between two runs the query file is removed
RemoveSource ==
    /\ pc \in Terminal
    /\ run < MaxRuns
    /\ query_file.status = "ok" /\ query_file.n >= 1
    /\ query_file' = [status |-> "missing", n |-> 0, ver |-> 0, len1 |-> ShortLen]
    /\ UNCHANGED <<batch_size, stats, schema_file, dir_exists, index,
                   stats_file, pc, trace, run, force_rebuild, all_documents,
                   final_documents, path, i, calls, attempts, embedded,
                   progress_log, stats_writes, ret, sources_read, before>>
    /\ UNCHANGED <<retrieval_vars, formatter_vars, parser_vars, utility_vars>>

Next ==
    \/ \E force \in BOOLEAN : Call(force)
    \/ Clear
    \/ LoadSources
    \/ Chunk
    \/ FastPath
    \/ BatchInit
    \/ BatchStep
    \/ PersistStats
    \/ EditSource

Spec == Init /\ [][Next]_vars

\* builds over small source files (at most MaxFewQueries queries, so every
\* upsert takes the from_documents path), where the files may also be
\* removed between two runs
InitSources ==
    /\ InitWith({DEFAULT_BATCH_SIZE})
    /\ query_file.n <= MaxFewQueries

NextSources ==
    \/ \E force \in BOOLEAN : Call(force)
    \/ Clear
    \/ LoadSources
    \/ Chunk
    \/ FastPath
    \/ PersistStats
    \/ EditSource
    \/ RemoveSource

SpecSources == InitSources /\ [][NextSources]_vars

\* one build run with every batch size of 1 .. MaxBatchSize
NextBatch ==
    \/ \E force \in BOOLEAN : run = 0 /\ Call(force)
    \/ Clear
    \/ LoadSources
    \/ Chunk
    \/ FastPath
    \/ BatchInit
    \/ BatchStep
    \/ PersistStats

SpecBatch == InitBatch /\ [][NextBatch]_vars

\* ------------------------------------------------------------ claim helpers
RECURSIVE Flatten(_)
Flatten(seqs) == IF seqs = <<>> THEN <<>> ELSE Head(seqs) \o Flatten(Tail(seqs))

Range(seq) == {seq[k] : k \in DOMAIN seq}

IsPrefix(a, b) == Len(a) <= Len(b) /\ SubSeq(b, 1, Len(a)) = a

\* the phase a terminal state was entered from
EnteredFrom == IF Len(trace) >= 2 THEN trace[Len(trace) - 1] ELSE "none"

\* what the collection held when the first source was loaded
BaseIndex == IF "CLEAR" \in Range(trace) THEN <<>> ELSE before.index

PhasesOfDone ==
    <<"LOAD_SOURCES", "CHUNK", "EMBED_AND_UPSERT", "PERSIST_STATS", "DONE">>

\* C1: a run that ends in DONE went through LOAD_SOURCES, CHUNK,
\* EMBED_AND_UPSERT and PERSIST_STATS once each and in that order, and CLEAR,
\* when taken, comes right after INIT and before LOAD_SOURCES.
C1_PhaseOrder ==
    pc = "DONE" =>
        \/ trace = <<"INIT">> \o PhasesOfDone
        \/ trace = <<"INIT", "CLEAR">> \o PhasesOfDone

C1_Witness ==
    /\ pc = "DONE" /\ path = "batch" /\ Len(calls) >= 2
    /\ "CLEAR" \in Range(trace) /\ run = 2

\* every upsert call the run had to make was made and returned
AllUpsertsSucceeded ==
    /\ path # "none"
    /\ attempts = Len(calls)
    /\ path = "batch" =>
            /\ batch_size # 0
            /\ ~InRange(i, Len(final_documents), batch_size)

\* C2 as stated: FAILED is entered from EMBED_AND_UPSERT only, and a run
\* whose upserts all succeeded ends in DONE.
C2_FailedOnlyFromUpsert ==
    /\ pc = "FAILED" => EnteredFrom = "EMBED_AND_UPSERT"
    /\ pc \in Terminal /\ AllUpsertsSucceeded => pc = "DONE"

\* C2, amended: a run returns None from LOAD_SOURCES exactly when no
\* document was loaded, from EMBED_AND_UPSERT only when a call of that phase
\* raised, and from PERSIST_STATS only after every upsert call returned;
\* never from CHUNK.
C2_FailedOrigins ==
    /\ pc = "FAILED" =>
        \/ EnteredFrom = "LOAD_SOURCES" /\ all_documents = <<>>
        \/ /\ EnteredFrom = "EMBED_AND_UPSERT"
           /\ all_documents # <<>>
           /\ \/ attempts = Len(calls) + 1
              \/ path = "batch" /\ attempts = 0
        \/ /\ EnteredFrom = "PERSIST_STATS"
           /\ all_documents # <<>>
           /\ attempts = Len(calls)
           /\ path = "batch" => ~InRange(i, Len(final_documents), batch_size)
    /\ pc \in {"LOAD_SOURCES", "CHUNK", "EMBED_AND_UPSERT", "DONE"}
            => all_documents # <<>>

C2_Witness ==
    /\ pc = "FAILED" /\ EnteredFrom = "LOAD_SOURCES"
    /\ query_file.status = "ok" /\ schema_file.status = "ok"

\* the natural key of a document: its category with table_name or query_id
NaturalKey(d) == <<d.type, d.key>>

\* the collection records another hash, or none, for the document's key
HashDiffers(d, recorded) ==
    ~\E e \in Range(recorded) :
        NaturalKey(e) = NaturalKey(d) /\ e.content_hash = d.content_hash

\* C3 as stated: a successful run embeds exactly the documents whose
\* content_hash differs from the hash recorded for their natural key, so a
\* second run over unchanged sources embeds nothing.
C3_EmbedsOnlyChanged ==
    pc = "DONE" /\ batch_size >= 1 =>
        LET changed == {NaturalKey(d) : d \in
                            {x \in Range(all_documents) : HashDiffers(x, BaseIndex)}}
        IN  /\ {NaturalKey(d) : d \in Range(Flatten(calls))} = changed
            /\ changed = {} => embedded = 0

\* batch j of the batch path, computed from the final document sequence
ExpectedBatch(j) ==
    SubSeq(final_documents, (j - 1) * batch_size + 1,
           Min(j * batch_size, Len(final_documents)))

\* C4: in the batch path an upsert call that raises ends the run at once
\* (FAILED, no later batch attempted) and the collection still holds what it
\* held before the run's first upsert followed by batches 1 .. j-1.
C4_AbortKeepsCommitted ==
    path = "batch" /\ attempts > Len(calls) =>
        /\ pc = "FAILED"
        /\ attempts = Len(calls) + 1
        /\ calls = [j \in 1 .. attempts - 1 |-> ExpectedBatch(j)]
        /\ index = BaseIndex \o Flatten(calls)

C4_Witness ==
    /\ pc = "FAILED" /\ path = "batch" /\ attempts = 3 /\ Len(calls) = 2
    /\ ~force_rebuild /\ before.index # <<>>

\* the documents the run had stored when it failed
CommittedCount == Len(Flatten(calls))

PastClearCheck == pc \notin {"IDLE", "INIT"}

\* C6: CLEAR is taken iff force_rebuild, right after INIT; when LOAD_SOURCES
\* starts after it nothing persisted before the run is left, and a run
\* without force_rebuild keeps every earlier entry.
C6_ClearIffForce ==
    /\ PastClearCheck => ("CLEAR" \in Range(trace) <=> force_rebuild)
    /\ "CLEAR" \in Range(trace) =>
            /\ trace[2] = "CLEAR"
            /\ \A k \in DOMAIN trace : trace[k] = "CLEAR" => k = 2
    /\ pc = "CLEAR" => index = <<>> /\ stats_file = NoFile
    /\ PastClearCheck /\ force_rebuild =>
            /\ \A e \in Range(index) : e.created_at = run
            /\ stats_file.exists => stats_file.last_build = run
    /\ PastClearCheck /\ ~force_rebuild =>
            /\ IsPrefix(before.index, index)
            /\ stats_file = before.stats_file
                    \/ (stats_file.exists /\ stats_file.last_build = run)

C6_Witness ==
    /\ pc = "CLEAR" /\ before.index # <<>> /\ before.stats_file.exists

\* the batches the batching policy prescribes for the final documents
ExpectedCalls ==
    IF Len(final_documents) <= SMALL_DATASET_THRESHOLD
    THEN <<final_documents>>
    ELSE [j \in 1 .. CeilDiv(Len(final_documents), batch_size) |-> ExpectedBatch(j)]

\* C7: with n >= 1 final documents and batch_size >= 1 the upsert calls of a
\* run are one call with all n documents when n <= 100, and otherwise
\* ceil(n / batch_size) calls that partition the final documents into
\* batches of batch_size, the last one non-empty and possibly shorter.
C7_BatchingPolicy ==
    /\ pc \in {"CHUNK", "EMBED_AND_UPSERT", "DONE", "FAILED"} /\ path # "none" =>
            /\ Len(calls) <= Len(ExpectedCalls)
            /\ calls = SubSeq(ExpectedCalls, 1, Len(calls))
    /\ pc = "DONE" =>
            /\ calls = ExpectedCalls
            /\ Flatten(calls) = final_documents
            /\ path = "fast" <=> Len(final_documents) <= SMALL_DATASET_THRESHOLD
            /\ path = "batch" =>
                    /\ Len(calls) = CeilDiv(Len(final_documents), batch_size)
                    /\ \A j \in 1 .. Len(calls) - 1 : Len(calls[j]) = batch_size
                    /\ Len(calls[Len(calls)]) \in 1 .. batch_size

C7_Witness ==
    /\ pc = "DONE" /\ path = "batch" /\ Len(calls) = 3
    /\ Len(calls[3]) < batch_size

\* C8: in the batch path one progress value is printed per upserted batch;
\* after batch j it is min(j * batch_size, n) of n, it grows strictly, never
\* passes n of n (100%) and is n of n after the last batch.
C8_Progress ==
    path = "batch" =>
        /\ Len(progress_log) = Len(calls)
        /\ \A j \in DOMAIN progress_log :
                /\ progress_log[j] =
                        <<Min(j * batch_size, Len(final_documents)),
                          Len(final_documents)>>
                /\ progress_log[j][1] * 100 <= 100 * progress_log[j][2]
                /\ j > 1 => progress_log[j - 1][1] < progress_log[j][1]
        /\ pc = "DONE" =>
                /\ progress_log # <<>>
                /\ progress_log[Len(progress_log)][1] = Len(final_documents)

C8_Witness ==
    /\ pc = "DONE" /\ path = "batch" /\ Len(progress_log) = 4
    /\ Len(final_documents) % batch_size # 0

\* C9: the documents are upserted in the order of the merged sequence, one
\* batch after the other; the chunks of a split document are contiguous, in
\* chunk order and at their parent's position (the records of a file keep
\* their order); every business_query document comes before every
\* table_schema document.
C9_UpsertOrder ==
    path # "none" =>
        LET sent == Flatten(calls)
        IN  /\ IsPrefix(sent, final_documents)
            /\ index = BaseIndex \o sent
            /\ \A a \in 1 .. Len(sent) - 1 :
                    LET x == sent[a]
                        y == sent[a + 1]
                    IN  /\ ~(x.type = "table_schema" /\ y.type = "business_query")
                        /\ x.type = y.type => x.key <= y.key
                        /\ NaturalKey(x) = NaturalKey(y) => y.part = x.part + 1
                        /\ NaturalKey(x) # NaturalKey(y) => y.part \in {0, 1}
            /\ pc = "DONE" /\ batch_size >= 1 =>
                    {NaturalKey(d) : d \in Range(sent)}
                        = {NaturalKey(d) : d \in Range(all_documents)}

C9_Witness ==
    /\ pc = "DONE" /\ path = "batch" /\ Len(calls) >= 2
    /\ \E a, b \in DOMAIN final_documents :
            /\ final_documents[a].type = "business_query"
            /\ final_documents[a].part = 3
            /\ final_documents[b].type = "table_schema"
            /\ final_documents[b].part = 2

FaultySource(f) == f.status # "ok"

\* the documents the run would load from the source that is in order
SiblingDocuments ==
    LET q == sources_read[1]
        s == sources_read[2]
    IN  IF FaultySource(q)
        THEN load_schema_documents(s, run)
        ELSE load_query_documents(q, run)

\* C11: when exactly one source file is missing, unreadable or invalid JSON
\* the run goes on with the documents of the other source alone: it loads
\* them all, chunks them, upserts every one of them and, unless an upsert
\* or the statistics write fails, ends in DONE.
C11_OneFaultySource ==
    /\ sources_read # <<>>
    /\ FaultySource(sources_read[1]) # FaultySource(sources_read[2])
    /\ SiblingDocuments # <<>>
    /\ batch_size >= 1
    =>  /\ pc # "RAISED"
        /\ all_documents = SiblingDocuments
        /\ pc = "DONE" => Flatten(calls) = ChunkAll(SiblingDocuments)
        /\ pc = "FAILED" => EnteredFrom \in {"EMBED_AND_UPSERT", "PERSIST_STATS"}

\* ------------------------------------------------------ retrieval servers
\* Texts are written in ASCII: "[X]" stands for the cross mark that opens
\* the error texts of kb_mcp_server and biai_server, the rest is a gloss of
\* the Chinese wording that keeps which text is a prefix of which.
MaxK == 22              \* k arguments tried are -1 .. MaxK
MaxEntries == 2         \* entries of a persisted collection
MaxAnswers == 2         \* tool calls made on one server
MaxScore == 130         \* distances tried, in hundredths: 0 .. MaxScore

K_MIN == 1              \* max(1, ...)
K_MAX == 20             \* min(20, k)
KB_SEARCH_K_MAX == 10   \* min(10, k) of kb_search

Max(a, b) == IF a >= b THEN a ELSE b

ServerModules ==
    {"kb_mcp_server", "biai_server", "knowledge_base_mcp_server",
     "test_mcp_integration"}

\* the two servers with kb_search_tables and kb_search_requirements
TwoStoreServers == {"kb_mcp_server", "biai_server"}

\* query texts of the tool calls; the formatters are also given the empty one
Queries == {"loan orders"}

FormatterQueries == {"", "loan orders"}

KValues == -1 .. MaxK

\* a loaded Chroma collection with its entries by document type
Chroma(business, schema) ==
    [kind |-> "chroma", business |-> business, schema |-> schema]

_build_vectorstoreMutant(condition, business, schema) ==
    IF condition = "path_missing"
    THEN NoneValue
    ELSE Chroma(business, schema)

\* _build_vectorstore: None when the path is missing or loading raises

_build_vectorstore(condition, business, schema) ==
    IF condition \in {"path_missing", "load_error"}
    THEN NoneValue
    ELSE Chroma(business, schema)

StoreConditions == {"path_missing", "load_error", "loaded"}

TABLE_KB_PATH == "chroma_db/meta_tables_kb"
QUERY_KB_PATH == "chroma_db/query_requirements_kb"

TableNotInitialised == "[X] table knowledge base not initialised, check path: " \o TABLE_KB_PATH
TableNotFound == "no related table structure found."

TableSearchFailedMutant(exc) == exc.message

\* the text of _search_tables' except branch

TableSearchFailed(exc) == "[X] table structure search failed: " \o exc.message

RequirementNotInitialised == "[X] requirement knowledge base not initialised, check path: " \o QUERY_KB_PATH
RequirementNotFound == "no related business requirement found."
RequirementSearchFailed(exc) == "[X] requirement search failed: " \o exc.message
KbSearchFailed(exc) == "search failed: " \o exc.message
KbSearchNotFound == "no related content found."
QueryEmpty == "query must not be empty"

\* exceptions a similarity search can raise: the embedding request or the
\* collection query fails; str(exc) may be empty or any text, the text of
\* the tool's own "not found" answer included
Exceptions(not_found) ==
    {[source |-> "embedding", message |-> "Connection error."],
     [source |-> "store", message |-> ""],
     [source |-> "store", message |-> not_found]}

\* hundredths d < 100 at which the double (1 - d/100) * 100 lies just below
\* the integer 100 - d, so that int() gives one less
TruncatedBelowOne == {34, 55, 56, 67, 68, 78, 79, 80, 81, 89, 90, 91, 92, 93}

\* hundredths d >= 100 at which the double d/100 * 100 lies just below d
TruncatedFromOne ==
    {113, 114, 115, 116, 201, 203, 205, 207, 226, 228, 230, 232, 251, 253, 255}

\* similarity = int((1 - score) * 100) if score < 1 else int(score * 100),
\* score in hundredths
Similarity(score) ==
    IF score < 100
    THEN (100 - score) - (IF score \in TruncatedBelowOne THEN 1 ELSE 0)
    ELSE score - (IF score \in TruncatedFromOne THEN 1 ELSE 0)

NoResultsMutant(rs) == FALSE

\* if not results:

NoResults(rs) == rs = <<>>

\* one "[rank] ... | similarity: n%" block per result
ResultBlocks(rs) ==
    [j \in DOMAIN rs |->
        [rank |-> j, id |-> rs[j].doc, similarity |-> Similarity(rs[j].score)]]

format_table_results(rs, query) ==
    IF NoResults(rs)
    THEN [kind |-> "no_results",
          text |-> "no data table related to <" \o query \o "> found.",
          blocks |-> <<>>]
    ELSE [kind |-> "results",
          text |-> "query: " \o query \o " / related tables found",
          blocks |-> ResultBlocks(rs)]

format_requirement_results(rs, query) ==
    IF NoResults(rs)
    THEN [kind |-> "no_results",
          text |-> "no earlier requirement related to <" \o query \o "> found.",
          blocks |-> <<>>]
    ELSE [kind |-> "results",
          text |-> "query: " \o query \o " / similar requirements found",
          blocks |-> ResultBlocks(rs)]

\* a text returned by a return statement of its own
Message(kind, text) == [kind |-> kind, text |-> text, blocks |-> <<>>]

\* entries of a collection a search with this filter can return
Matching(store, filter) ==
    CASE filter = "business_query" -> store.business
      [] filter = "table_schema" -> store.schema
      [] OTHER -> store.business + store.schema

\* what similarity_search(_with_score)(query, k=k) returns when it does not
\* raise: the min(k, matching entries) nearest entries, nearest first
SearchResults(store, k, filter, nearest) ==
    [j \in 1 .. Min(k, Matching(store, filter)) |->
        [doc |-> j, score |-> nearest + (j - 1)]]

ClampMutant(k, upper) == Min(upper, k)

\* k = max(1, min(upper, k))

Clamp(k, upper) == Max(K_MIN, Min(upper, k))

\* the search a tool sends to a vector store
\* raised: the search raised; returned: the number of results it returned
StoreCall(store_name, query, k, filter, raised, returned) ==
    [store |-> store_name, query |-> query, k |-> k, filter |-> filter,
     raised |-> raised, returned |-> returned]

\* InitServer: a server module has been imported (kb_mcp_server,
\* knowledge_base_mcp_server, test_mcp_integration) or create_server has
\* run (biai_server); no tool has been called.
InitServer ==
    /\ server_module \in ServerModules
    /\ \E tc, qc \in StoreConditions, tn, qn \in 0 .. MaxEntries :
        /\ tc # "loaded" => tn = 0
        /\ qc # "loaded" => qn = 0
        /\ TABLE_VECTORSTORE =
                IF server_module \in TwoStoreServers
                THEN _build_vectorstore(tc, 0, tn)
                ELSE IF server_module = "test_mcp_integration" /\ tc = "loaded"
                THEN Chroma(0, tn)
                ELSE NoneValue
        /\ QUERY_VECTORSTORE =
                IF server_module \in TwoStoreServers
                THEN _build_vectorstore(qc, qn, 0)
                ELSE IF server_module = "test_mcp_integration" /\ qc = "loaded"
                THEN Chroma(qn, 0)
                ELSE NoneValue
        /\ VECTORSTORE =
                IF server_module = "knowledge_base_mcp_server" /\ tc = "loaded"
                                                               /\ qc = "loaded"
                THEN Chroma(qn, tn)
                ELSE NoneValue
        /\ kb_paths = [created |-> [tables |-> tc, requirements |-> qc],
                       now |-> [tables |-> tc, requirements |-> qc]]
    /\ server_module = "test_mcp_integration" =>
            TABLE_VECTORSTORE # NoneValue /\ QUERY_VECTORSTORE # NoneValue
    /\ server_module = "knowledge_base_mcp_server" => VECTORSTORE # NoneValue
    /\ request = NoRequest
    /\ store_call = NoStoreCall
    /\ response = NoResponse
    /\ propagated = {}
    /\ answers = <<>>
    /\ BuildIdle
    /\ FormatterIdle
    /\ ParserIdle
    /\ UtilityIdle

\* distance of the nearest entry to the query, in hundredths
NearestScores == {0, 100}

CaughtMutant(exc) == exc.source = "store"

\* except Exception as exc

Caught(exc) == TRUE

\* the tool returns a text
Respond(r) ==
    /\ response' = r
    /\ answers' = Append(answers, r.kind)
    /\ UNCHANGED propagated

\* an exception leaves the tool
Raise(exc) ==
    /\ response' = [kind |-> "raised", text |-> "", blocks |-> <<>>]
    /\ answers' = Append(answers, "raised")
    /\ propagated' = propagated \cup {exc.source}

\* kb_search_tables(query, k) of kb_mcp_server (with _search_tables) and of
\* biai_server
kb_search_tables ==
    /\ server_module \in TwoStoreServers
    /\ Len(answers) < MaxAnswers
    /\ \E query \in Queries, k \in KValues :
        LET k2 == Clamp(k, K_MAX)
        IN  /\ request' = [tool |-> "kb_search_tables", query |-> query, k |-> k]
            /\ IF TABLE_VECTORSTORE = NoneValue
               THEN /\ store_call' = NoStoreCall
                    /\ Respond(Message("not_initialised", TableNotInitialised))
               ELSE \/ \E exc \in Exceptions(TableNotFound) :
                        /\ store_call' = StoreCall("TABLE_VECTORSTORE", query, k2, "none",
                                                   TRUE, 0)
                        /\ IF Caught(exc)
                           THEN Respond(Message("failed", TableSearchFailed(exc)))
                           ELSE Raise(exc)
                    \/ \E nearest \in NearestScores :
                        LET rs == SearchResults(TABLE_VECTORSTORE, k2, "none", nearest)
                        IN  /\ store_call' = StoreCall("TABLE_VECTORSTORE", query, k2,
                                                       "none", FALSE, Len(rs))
                            /\ IF NoResults(rs)
                               THEN Respond(Message("not_found", TableNotFound))
                               ELSE Respond(format_table_results(rs, query))
    /\ UNCHANGED <<server_module, TABLE_VECTORSTORE, QUERY_VECTORSTORE, VECTORSTORE,
                   kb_paths>>
    /\ UNCHANGED <<build_vars, formatter_vars, parser_vars, utility_vars>>

\* kb_search_requirements(query, k) of kb_mcp_server (with
\* _search_requirements) and of biai_server
kb_search_requirements ==
    /\ server_module \in TwoStoreServers
    /\ Len(answers) < MaxAnswers
    /\ \E query \in Queries, k \in KValues :
        LET k2 == Clamp(k, K_MAX)
        IN  /\ request' = [tool |-> "kb_search_requirements", query |-> query, k |-> k]
            /\ IF QUERY_VECTORSTORE = NoneValue
               THEN /\ store_call' = NoStoreCall
                    /\ Respond(Message("not_initialised", RequirementNotInitialised))
               ELSE \/ \E exc \in Exceptions(RequirementNotFound) :
                        /\ store_call' = StoreCall("QUERY_VECTORSTORE", query, k2, "none",
                                                   TRUE, 0)
                        /\ IF Caught(exc)
                           THEN Respond(Message("failed", RequirementSearchFailed(exc)))
                           ELSE Raise(exc)
                    \/ \E nearest \in NearestScores :
                        LET rs == SearchResults(QUERY_VECTORSTORE, k2, "none", nearest)
                        IN  /\ store_call' = StoreCall("QUERY_VECTORSTORE", query, k2,
                                                       "none", FALSE, Len(rs))
                            /\ IF NoResults(rs)
                               THEN Respond(Message("not_found", RequirementNotFound))
                               ELSE Respond(format_requirement_results(rs, query))
    /\ UNCHANGED <<server_module, TABLE_VECTORSTORE, QUERY_VECTORSTORE, VECTORSTORE,
                   kb_paths>>
    /\ UNCHANGED <<build_vars, formatter_vars, parser_vars, utility_vars>>

\* the kb_search_tables double of test_mcp_integration: no None check, no
\* try; an exception ends the script
test_kb_search_tables ==
    /\ server_module = "test_mcp_integration"
    /\ propagated = {}
    /\ Len(answers) < MaxAnswers
    /\ \E query \in Queries, k \in KValues :
        LET k2 == Clamp(k, K_MAX)
        IN  /\ request' = [tool |-> "kb_search_tables", query |-> query, k |-> k]
            /\ \/ \E exc \in Exceptions(TableNotFound) :
                    /\ store_call' = StoreCall("TABLE_VECTORSTORE", query, k2, "none",
                                               TRUE, 0)
                    /\ Raise(exc)
               \/ \E nearest \in NearestScores :
                    LET rs == SearchResults(TABLE_VECTORSTORE, k2, "none", nearest)
                    IN  /\ store_call' = StoreCall("TABLE_VECTORSTORE", query, k2, "none",
                                                   FALSE, Len(rs))
                        /\ Respond(format_table_results(rs, query))
    /\ UNCHANGED <<server_module, TABLE_VECTORSTORE, QUERY_VECTORSTORE, VECTORSTORE,
                   kb_paths>>
    /\ UNCHANGED <<build_vars, formatter_vars, parser_vars, utility_vars>>

\* the kb_search_requirements double of test_mcp_integration
test_kb_search_requirements ==
    /\ server_module = "test_mcp_integration"
    /\ propagated = {}
    /\ Len(answers) < MaxAnswers
    /\ \E query \in Queries, k \in KValues :
        LET k2 == Clamp(k, K_MAX)
        IN  /\ request' = [tool |-> "kb_search_requirements", query |-> query, k |-> k]
            /\ \/ \E exc \in Exceptions(RequirementNotFound) :
                    /\ store_call' = StoreCall("QUERY_VECTORSTORE", query, k2, "none",
                                               TRUE, 0)
                    /\ Raise(exc)
               \/ \E nearest \in NearestScores :
                    LET rs == SearchResults(QUERY_VECTORSTORE, k2, "none", nearest)
                    IN  /\ store_call' = StoreCall("QUERY_VECTORSTORE", query, k2, "none",
                                                   FALSE, Len(rs))
                        /\ Respond(format_requirement_results(rs, query))
    /\ UNCHANGED <<server_module, TABLE_VECTORSTORE, QUERY_VECTORSTORE, VECTORSTORE,
                   kb_paths>>
    /\ UNCHANGED <<build_vars, formatter_vars, parser_vars, utility_vars>>

DEFAULT_K == 3          \* arguments.get("k", 3)

ToolNames == {"kb_search", "kb_lookup"}

\* arguments of a kb_search call; k may be left out
Arguments ==
    [query : {"", "  ", "loan orders"},
     scope : {"business", "Schema", "all", "tables"}]
        \cup [query : {"loan orders"}, scope : {"business", "all"}, k : KValues]

\* str.strip() on the query texts tried
Strip(text) == IF text \in {" ", "  "} THEN "" ELSE text

\* str.strip().lower() on the scope texts tried
Lower(text) == IF text = "Schema" THEN "schema" ELSE text

\* filter_arg of _search
FilterArg(scope) ==
    CASE scope = "business" -> "business_query"
      [] scope = "schema" -> "table_schema"
      [] OTHER -> "none"

\* "\n\n".join(_format_doc(doc, i + 1) ...)
FormatDocs(docs) ==
    [kind |-> "results", text |-> "[result 1] ",
     blocks |-> [j \in DOMAIN docs |-> [rank |-> j, id |-> docs[j].doc]]]

\* _search(query, scope, k) of knowledge_base_mcp_server
_search(query, scope, k) ==
    \/ \E exc \in Exceptions(KbSearchNotFound) :
        /\ store_call' = StoreCall("VECTORSTORE", query, k, FilterArg(scope),
                                   TRUE, 0)
        /\ IF Caught(exc)
           THEN Respond(Message("failed", KbSearchFailed(exc)))
           ELSE Raise(exc)
    \/ \E nearest \in NearestScores :
        LET docs == SearchResults(VECTORSTORE, k, FilterArg(scope), nearest)
        IN  /\ store_call' = StoreCall("VECTORSTORE", query, k,
                                       FilterArg(scope), FALSE, Len(docs))
            /\ IF NoResults(docs)
               THEN Respond(Message("not_found", KbSearchNotFound))
               ELSE Respond(FormatDocs(docs))

\* call_tool(name, arguments) of knowledge_base_mcp_server; the MCP server
\* object turns an exception of the handler into an error reply and goes on
call_tool ==
    /\ server_module = "knowledge_base_mcp_server"
    /\ Len(answers) < MaxAnswers
    /\ \E name \in ToolNames, arguments \in Arguments :
        /\ request' = [tool |-> name, arguments |-> arguments]
        /\ IF name # "kb_search"
           THEN /\ store_call' = NoStoreCall
                /\ Raise([source |-> "ValueError", message |-> "unknown tool"])
           ELSE LET query == Strip(arguments.query)
                    scope0 == Lower(Strip(arguments.scope))
                    scope == IF scope0 \in {"business", "schema", "all"}
                             THEN scope0 ELSE "all"
                    k0 == IF "k" \in DOMAIN arguments THEN arguments.k ELSE DEFAULT_K
                    k == Clamp(k0, KB_SEARCH_K_MAX)
                IN  IF query = ""
                    THEN /\ store_call' = NoStoreCall
                         /\ Respond(Message("invalid", QueryEmpty))
                    ELSE _search(query, scope, k)
    /\ UNCHANGED <<server_module, TABLE_VECTORSTORE, QUERY_VECTORSTORE, VECTORSTORE,
                   kb_paths>>
    /\ UNCHANGED <<build_vars, formatter_vars, parser_vars, utility_vars>>

KnowledgeBases == {"tables", "requirements"}

\* build_knowledge_base_enhanced.py is run while the server is up, between
\* two tool calls: main builds both collections, whose directories now
\* exist and load; nothing in the server calls _build_vectorstore again
KnowledgeBaseBuilt ==
    /\ server_module \in TwoStoreServers
    /\ Len(answers) < MaxAnswers
    /\ \E name \in KnowledgeBases : kb_paths.now[name] # "loaded"
    /\ kb_paths' = [kb_paths EXCEPT !.now = [name \in KnowledgeBases |-> "loaded"]]
    /\ UNCHANGED <<server_module, TABLE_VECTORSTORE, QUERY_VECTORSTORE, VECTORSTORE,
                   request, store_call, response, propagated, answers>>
    /\ UNCHANGED <<build_vars, formatter_vars, parser_vars, utility_vars>>

NextServer ==
    \/ kb_search_tables
    \/ kb_search_requirements
    \/ call_tool
    \/ test_kb_search_tables
    \/ test_kb_search_requirements

SpecServer == InitServer /\ [][NextServer]_vars

\* a server with the two collections, from its creation on, and the
\* collection directories on disk
InitLifetime ==
    /\ InitServer
    /\ server_module \in TwoStoreServers

NextLifetime ==
    \/ kb_search_tables
    \/ kb_search_requirements
    \/ KnowledgeBaseBuilt

SpecLifetime == InitLifetime /\ [][NextLifetime]_vars

\* the tools that search one of the two collections
TwoStoreTools == {"kb_search_tables", "kb_search_requirements"}

\* C12: the k that kb_search_tables and kb_search_requirements send to the
\* vector store lies in 1 .. 20: it is the k passed when that lies in
\* 1 .. 20, 1 when k < 1 and 20 when k > 20.
C12_KClamped ==
    request.tool \in TwoStoreTools /\ store_call # NoStoreCall =>
        /\ store_call.k \in 1 .. 20
        /\ store_call.k = (IF request.k < 1 THEN 1
                           ELSE IF request.k > 20 THEN 20
                           ELSE request.k)

C12_Witness ==
    /\ request.tool = "kb_search_requirements" /\ request.k = 21
    /\ store_call # NoStoreCall /\ store_call.k = 20
    /\ response.kind = "results"

\* ------------------------------------------------------------- formatters
\* the result lists handed to a formatter: none, one result at every
\* distance of 0 .. MaxScore hundredths, and pairs on both sides of 1.0
ResultLists ==
    {<<>>}
        \cup {<<[doc |-> 1, score |-> d]>> : d \in 0 .. MaxScore}
        \cup {<<[doc |-> 1, score |-> d], [doc |-> 2, score |-> e]>> :
                    d \in {0, 99}, e \in {100, MaxScore}}

InitFormatter ==
    /\ formatter \in [function : {"format_table_results",
                                  "format_requirement_results"},
                      query : FormatterQueries]
    /\ results \in ResultLists
    /\ result_text = NoResponse
    /\ BuildIdle
    /\ RetrievalIdle
    /\ ParserIdle
    /\ UtilityIdle

\* format_table_results(results, query) is called
FormatTable ==
    /\ formatter.function = "format_table_results"
    /\ result_text = NoResponse
    /\ result_text' = format_table_results(results, formatter.query)
    /\ UNCHANGED <<formatter, results, build_vars, retrieval_vars, parser_vars,
                   utility_vars>>

\* format_requirement_results(results, query) is called
FormatRequirement ==
    /\ formatter.function = "format_requirement_results"
    /\ result_text = NoResponse
    /\ result_text' = format_requirement_results(results, formatter.query)
    /\ UNCHANGED <<formatter, results, build_vars, retrieval_vars, parser_vars,
                   utility_vars>>

NextFormatter ==
    \/ FormatTable
    \/ FormatRequirement

SpecFormatter == InitFormatter /\ [][NextFormatter]_vars

\* C13: for a distance d of 0 .. 1 (in hundredths) the relevance both
\* formatters render is clamp(100 * (1 - d), 0, 100), a value of 0 .. 100
\* that is 0% at d = 1; for a distance above 1 it is d * 100.
C13_Relevance ==
    result_text # NoResponse /\ result_text.kind = "results" =>
        \A j \in DOMAIN results :
            LET d == results[j].score
                shown == result_text.blocks[j].similarity
            IN  /\ d <= 100 =>
                    /\ shown = Max(0, Min(100, 100 - d))
                    /\ shown \in 0 .. 100
                    /\ d = 100 => shown = 0
                /\ d > 100 => shown = d

\* the collection a tool of the two-store servers searches
StoreOf(tool) ==
    IF tool = "kb_search_tables" THEN TABLE_VECTORSTORE ELSE QUERY_VECTORSTORE

\* C14: kb_search_tables and kb_search_requirements whose similarity search
\* returns zero results (an empty index returns nothing else) answer with
\* their explicit, non-empty "no results" text and raise nothing; a
\* formatter given the empty list (as in test_mcp_integration) likewise
\* returns a non-empty "no results" text.
C14_NoResultsMessage ==
    request.tool \in TwoStoreTools /\ store_call # NoStoreCall =>
        /\ Matching(StoreOf(request.tool), "none") = 0 => store_call.returned = 0
        /\ ~store_call.raised /\ store_call.returned = 0 =>
            /\ response.text # "" /\ Len(response.text) > 0
            /\ response.blocks = <<>>
            /\ answers[Len(answers)] \notin {"failed", "raised"}
            /\ propagated = {}
            /\ server_module \in TwoStoreServers =>
                /\ response.kind = "not_found"
                /\ response.text = (IF request.tool = "kb_search_tables"
                                    THEN TableNotFound ELSE RequirementNotFound)
            /\ server_module = "test_mcp_integration" =>
                /\ response.kind = "no_results"
                /\ response.text \in
                        {format_table_results(<<>>, request.query).text,
                         format_requirement_results(<<>>, request.query).text}

C14_Witness ==
    /\ server_module = "kb_mcp_server"
    /\ request.tool = "kb_search_tables"
    /\ TABLE_VECTORSTORE = Chroma(0, 0)
    /\ store_call # NoStoreCall
    /\ ~store_call.raised /\ store_call.returned = 0
    /\ response.kind = "not_found"

\* the servers whose tools guard the search with try/except
GuardedServers == {"kb_mcp_server", "biai_server", "knowledge_base_mcp_server"}

\* C15: an error the embedding service or the vector store raises during
\* kb_search_tables, kb_search_requirements or kb_search is caught in the
\* tool and handed back as an error text; whatever calls came before, no
\* such exception has left a tool and the server takes the next call.
C15_ErrorsCaught ==
    server_module \in GuardedServers =>
        /\ propagated \cap {"embedding", "store"} = {}
        /\ store_call # NoStoreCall /\ store_call.raised =>
                /\ response.kind = "failed"
                /\ response.text # ""
                /\ answers[Len(answers)] = "failed"
        /\ \A j \in DOMAIN answers :
                answers[j] = "raised" =>
                    /\ server_module = "knowledge_base_mcp_server"
                    /\ propagated = {"ValueError"}
        /\ Len(answers) < MaxAnswers =>
                ENABLED (kb_search_tables \/ kb_search_requirements \/ call_tool)

C15_Witness ==
    /\ server_module = "biai_server"
    /\ Len(answers) = 2 /\ answers[1] = "failed" /\ answers[2] = "results"
    /\ propagated = {}

\* every text a retrieval operation returns for a search that found nothing
NotFoundTexts == {TableNotFound, RequirementNotFound, KbSearchNotFound}

\* every text a retrieval operation returns for a search that failed
FailedTexts ==
    {TableNotInitialised, RequirementNotInitialised}
        \cup {TableSearchFailed(exc) : exc \in Exceptions(TableNotFound)}
        \cup {RequirementSearchFailed(exc) : exc \in Exceptions(RequirementNotFound)}
        \cup {KbSearchFailed(exc) : exc \in Exceptions(KbSearchNotFound)}

\* C16: the text a retrieval operation returns when the search ran and
\* found nothing differs from every text returned when the search failed
\* (store not initialised, store or embedding error), and neither is empty.
C16_NotFoundVersusFailed ==
    server_module \in GuardedServers =>
        /\ response.kind = "not_found" =>
                /\ response.text \in NotFoundTexts
                /\ response.text \notin FailedTexts
                /\ Len(response.text) > 0
        /\ response.kind \in {"failed", "not_initialised"} =>
                /\ response.text \in FailedTexts
                /\ response.text \notin NotFoundTexts
                /\ Len(response.text) > 0

C16_Witness ==
    /\ request.tool = "kb_search_tables"
    /\ response.kind = "failed"
    /\ response.text =
            TableSearchFailed([source |-> "store", message |-> TableNotFound])

\* ---------------------------------------------------------- schema parsing
\* A schema text is a sequence of statement blocks; a block is written
\*     CREATE TABLE `name` (  <body lines>  ) ENGINE=... COMMENT='...';
\* and each part may be missing or misspelt. The parser sees the text as the
\* sequence of its tokens; texts are ASCII glosses as above.
MaxBlocks == 2          \* statement blocks of a schema text
MaxBodyLines == 3       \* body lines of the block of a one-block text

\* a body line after line.strip(): what it starts with, the name that
\* follows, the rest of the declaration and the text of COMMENT '...'
Line(first, name, def, comment) ==
    [first |-> first, name |-> name, def |-> def, comment |-> comment]

BodyLines ==
    {Line("quoted name", "id", "int NOT NULL", ""),
     Line("quoted name", "id", "int NOT NULL", "primary key"),
     Line("quoted name", "status", "varchar(20) DEFAULT NULL", "order status"),
     Line("word", "amount", "decimal(10,2)", ""),
     Line("PRIMARY KEY", "", "(id)", ""),
     Line("KEY ", "idx_status", "status", ""),
     Line("KEY ", "", "status", ""),
     Line("INDEX ", "idx_id", "id", ""),
     Line("UNIQUE KEY", "uk_id", "id", ""),
     Line("CONSTRAINT", "fk_id", "FOREIGN KEY (id) REFERENCES o (id)", ""),
     Line("", "", "", "")}

\* a statement block: header "quoted" is CREATE TABLE `name` (, "unquoted"
\* is CREATE TABLE name (; close is ") ENGINE=..." ("engine"), ")" alone
\* ("plain") or missing ("none"); comment "" means no COMMENT= clause
Block(name, header, lines, close, comment, semi) ==
    [name |-> name, header |-> header, lines |-> lines, close |-> close,
     comment |-> comment, semi |-> semi]

BlockNames == <<"orders", "users", "loans", "payments">>

\* the shapes of a block with a one-column body
BlockShapes ==
    [header : {"quoted", "unquoted"}, close : {"engine", "plain", "none"},
     comment : {"", "order table"}, semi : BOOLEAN]

\* texts of 1 .. MaxBlocks blocks of every shape
ShapedTexts ==
    UNION {{[j \in 1 .. n |->
                Block(BlockNames[j], f[j].header,
                      <<Line("quoted name", "id", "int NOT NULL", "")>>,
                      f[j].close, f[j].comment, f[j].semi)] :
            f \in [1 .. n -> BlockShapes]} : n \in 1 .. MaxBlocks}

\* bodies of 0 .. MaxBodyLines lines
Bodies == UNION {[1 .. n -> BodyLines] : n \in 0 .. MaxBodyLines}

\* texts of one well-formed block with every body
OneBlockTexts ==
    {<<Block("orders", "quoted", b, "engine", "order table", TRUE)>> :
        b \in Bodies}

SchemaTexts == ShapedTexts \cup OneBlockTexts \cup {<<>>}

Token(t, name, line, text) == [t |-> t, name |-> name, line |-> line, text |-> text]

NoLine == Line("other", "", "", "")

\* the tokens of a block, in the order they are written
TokensOf(b) ==
    <<Token(IF b.header = "quoted" THEN "create" ELSE "create_unquoted",
            b.name, NoLine, "")>>
        \o [j \in DOMAIN b.lines |-> Token("line", "", b.lines[j], "")]
        \o (CASE b.close = "engine" -> <<Token("close_engine", "", NoLine, "")>>
              [] b.close = "plain" -> <<Token("close", "", NoLine, "")>>
              [] OTHER -> <<>>)
        \o (IF b.comment # "" THEN <<Token("comment", "", NoLine, b.comment)>>
            ELSE <<>>)
        \o (IF b.semi THEN <<Token("semi", "", NoLine, "")>> ELSE <<>>)

\* schema_content: the tokens of all blocks
RECURSIVE Tokens(_)
Tokens(text) ==
    IF text = <<>> THEN <<>> ELSE TokensOf(Head(text)) \o Tokens(Tail(text))

\* the least element of a non-empty set of positions
First(S) == CHOOSE x \in S : \A y \in S : x <= y

\* positions from c on where COMMENT='...' is followed at once by ;
ClosedComments(toks, c) ==
    {q \in c .. Len(toks) - 1 : toks[q].t = "comment" /\ toks[q + 1].t = "semi"}

\* positions after ENGINE= where .*?(?:COMMENT='(.*?)')?; can stop
\* expanding: at a ; or at a COMMENT=' that some later '; closes
Stops(toks, e) ==
    {c \in e + 1 .. Len(toks) :
        \/ toks[c].t = "semi"
        \/ toks[c].t = "comment" /\ ClosedComments(toks, c) # {}}

NoMatch == [found |-> FALSE]

\* table_pattern tried at position s:
\*   CREATE TABLE `(\w+)`\s*\((.*?)\)\s*ENGINE=.*?(?:COMMENT='(.*?)')?;
\* with re.DOTALL, so that .*? runs over line ends and over other blocks
MatchAt(toks, s) ==
    IF toks[s].t # "create" THEN NoMatch
    ELSE LET closes == {j \in s + 1 .. Len(toks) : toks[j].t = "close_engine"}
         IN  IF closes = {} THEN NoMatch
             ELSE LET e == First(closes)
                  IN  IF Stops(toks, e) = {} THEN NoMatch
                      ELSE LET c == First(Stops(toks, e))
                               q == IF toks[c].t = "semi" THEN c
                                    ELSE First(ClosedComments(toks, c))
                           IN  [found |-> TRUE,
                                start |-> s,
                                name |-> toks[s].name,
                                definition |-> SubSeq(toks, s + 1, e - 1),
                                comment |->
                                    IF toks[c].t = "semi" THEN ""
                                    ELSE IF q = c THEN toks[c].text
                                    ELSE toks[c].text \o "' ... COMMENT='"
                                                       \o toks[q].text,
                                end |-> IF toks[c].t = "semi" THEN c ELSE q + 1]

\* re.finditer: the matches from position pos on, left to right, each
\* search starting where the match before it ended
RECURSIVE Matches(_, _)
Matches(toks, pos) ==
    LET starts == {s \in pos .. Len(toks) : MatchAt(toks, s).found}
    IN  IF starts = {} THEN <<>>
        ELSE LET m == MatchAt(toks, First(starts))
             IN  <<m>> \o Matches(toks, m.end + 1)

\* the lines of table_definition.split('\n') that come from body lines,
\* with their place in the definition; every other token of a definition
\* that runs over several blocks gives lines starting with ), ; or CREATE
DefinitionLines(definition) ==
    [j \in DOMAIN definition |->
        IF definition[j].t = "line" THEN definition[j].line ELSE NoLine]

\* if not line or line.startswith('PRIMARY KEY') or line.startswith('KEY ')
\*    or line.startswith('CONSTRAINT'): continue
Skipped(line) == line.first \in {"", "PRIMARY KEY", "KEY ", "CONSTRAINT"}

FieldMatchMutant(line) == line.first \in {"quoted name", "word"}

\* re.match(r"`(\w+)`\s+(.*?)(?:,\s*)?$", line): the line opens with a
\* name in backticks

FieldMatch(line) == line.first = "quoted name"

\* what the field pattern and the COMMENT pattern take from a line
FieldEntry(line, at) ==
    [at |-> at, name |-> line.name, type |-> line.def, comment |-> line.comment]

\* fields.append(f"  - {field_name}: {field_type}  // {comment}"), or
\* f"  - {field_name}: {field_def}" when the line has no COMMENT '...'
FieldText(entry) ==
    "  - " \o entry.name \o ": " \o entry.type
        \o (IF entry.comment # "" THEN "  // " \o entry.comment ELSE "")

\* the list fields of _parse_table_fields
RECURSIVE FieldsFrom(_, _)
FieldsFrom(lines, at) ==
    IF at > Len(lines) THEN <<>>
    ELSE (IF ~Skipped(lines[at]) /\ FieldMatch(lines[at])
          THEN <<FieldEntry(lines[at], at)>>
          ELSE <<>>) \o FieldsFrom(lines, at + 1)

NO_FIELDS == "no field information"
NO_INDEXES == "  - no index"

\* _parse_table_fields(table_definition): (fields_text, len(fields))
_parse_table_fields(definition) ==
    LET fields == FieldsFrom(DefinitionLines(definition), 1)
    IN  [fields |-> fields,
         fields_text |-> IF fields # <<>>
                         THEN [j \in DOMAIN fields |-> FieldText(fields[j])]
                         ELSE <<NO_FIELDS>>,
         field_count |-> Len(fields)]

\* re.match(r"(?:KEY|INDEX)\s+`?(\w+)`?\s+\((.*?)\)", line): a name must
\* follow KEY or INDEX
IndexMatch(line) == line.name # ""

\* the list indexes of _extract_indexes
RECURSIVE IndexesFrom(_, _)
IndexesFrom(lines, at) ==
    IF at > Len(lines) THEN <<>>
    ELSE (IF lines[at].first = "PRIMARY KEY"
          THEN <<[at |-> at, label |-> "PRIMARY KEY", name |-> "",
                  columns |-> lines[at].def]>>
          ELSE IF lines[at].first \in {"KEY ", "INDEX "} /\ IndexMatch(lines[at])
          THEN <<[at |-> at, label |-> "INDEX", name |-> lines[at].name,
                  columns |-> lines[at].def]>>
          ELSE <<>>) \o IndexesFrom(lines, at + 1)

\* f"  - PRIMARY KEY: {line}" or f"  - INDEX {idx_name}: {idx_columns}"
IndexText(entry) ==
    IF entry.label = "PRIMARY KEY"
    THEN "  - PRIMARY KEY: PRIMARY KEY " \o entry.columns
    ELSE "  - INDEX " \o entry.name \o ": " \o entry.columns

\* _extract_indexes(table_definition)
_extract_indexes(definition) ==
    LET found == IndexesFrom(DefinitionLines(definition), 1)
    IN  [indexes |-> found,
         indexes_text |-> IF found # <<>>
                          THEN [j \in DOMAIN found |-> IndexText(found[j])]
                          ELSE <<NO_INDEXES>>]

\* str.strip() of a definition: the blank lines at both ends go
RECURSIVE StripLeft(_)
StripLeft(definition) ==
    IF definition # <<>> /\ Head(definition).t = "line"
                         /\ Head(definition).line.first = ""
    THEN StripLeft(Tail(definition))
    ELSE definition

RECURSIVE StripRight(_)
StripRight(definition) ==
    IF definition # <<>> /\ definition[Len(definition)].t = "line"
                         /\ definition[Len(definition)].line.first = ""
    THEN StripRight(SubSeq(definition, 1, Len(definition) - 1))
    ELSE definition

StripDefinition(definition) == StripRight(StripLeft(definition))

NO_COMMENT == "no description"

RenderDDLMutant(table_name, definition, table_comment) ==
    <<Token("create", table_name, NoLine, "")>>
        \o SelectSeq(StripDefinition(definition),
                     LAMBDA tok : tok.t = "line" /\ FieldMatch(tok.line))
        \o <<Token("close", "", NoLine, ""),
             Token("comment", "", NoLine, table_comment),
             Token("semi", "", NoLine, "")>>

\* the "full DDL" part of the content:
\*   CREATE TABLE `{table_name}` ( {table_definition.strip()} ) COMMENT='...';

RenderDDL(table_name, definition, table_comment) ==
    <<Token("create", table_name, NoLine, "")>>
        \o StripDefinition(definition)
        \o <<Token("close", "", NoLine, ""),
             Token("comment", "", NoLine, table_comment),
             Token("semi", "", NoLine, "")>>

\* the Document load_schema_documents builds of one match
TableDocument(m) ==
    LET table_comment == IF m.comment = "" THEN NO_COMMENT ELSE m.comment
        parsed_fields == _parse_table_fields(m.definition)
        parsed_indexes == _extract_indexes(m.definition)
    IN  [table_name |-> m.name,
         table_comment |-> table_comment,
         table_definition |-> m.definition,
         fields |-> parsed_fields.fields,
         fields_text |-> parsed_fields.fields_text,
         field_count |-> parsed_fields.field_count,
         indexes |-> parsed_indexes.indexes,
         indexes_text |-> parsed_indexes.indexes_text,
         ddl |-> RenderDDL(m.name, m.definition, table_comment),
         start |-> m.start]

\* the list documents of load_schema_documents for a schema text
TableDocuments(text) ==
    LET found == Matches(Tokens(text), 1)
    IN  [j \in DOMAIN found |-> TableDocument(found[j])]

InitParser ==
    /\ schema_text \in SchemaTexts
    /\ documents = <<>>
    /\ parsed = FALSE
    /\ BuildIdle
    /\ RetrievalIdle
    /\ FormatterIdle
    /\ UtilityIdle

\* load_schema_documents reads the text and returns its documents
LoadSchemaText ==
    /\ ~parsed
    /\ documents' = TableDocuments(schema_text)
    /\ parsed' = TRUE
    /\ UNCHANGED <<schema_text, build_vars, retrieval_vars, formatter_vars,
                   utility_vars>>

NextParser == LoadSchemaText

SpecParser == InitParser /\ [][NextParser]_vars

\* a block written as the pattern expects it
WellFormed(b) == b.header = "quoted" /\ b.close = "engine" /\ b.semi

\* the body of a block as tokens
BodyTokens(b) == [j \in DOMAIN b.lines |-> Token("line", "", b.lines[j], "")]

\* the documents made of exactly block b
OwnDocuments(b) ==
    {d \in DOMAIN documents :
        /\ documents[d].table_name = b.name
        /\ documents[d].table_definition = BodyTokens(b)}

\* C17: parsing a schema text never throws; a text without a CREATE TABLE
\* block the pattern can start at gives no table, and in a text that mixes
\* well-formed and malformed blocks every well-formed block gives its own
\* table document, in source order, whatever the malformed blocks are.
C17_WellFormedBlocksParsed ==
    parsed =>
        /\ (\A j \in DOMAIN schema_text : schema_text[j].header # "quoted")
                => documents = <<>>
        /\ \A j \in DOMAIN schema_text :
                WellFormed(schema_text[j]) => OwnDocuments(schema_text[j]) # {}
        /\ \A j, k \in DOMAIN schema_text :
                /\ j < k
                /\ WellFormed(schema_text[j]) /\ WellFormed(schema_text[k])
                => \A d \in OwnDocuments(schema_text[j]),
                      e \in OwnDocuments(schema_text[k]) : d < e

\* C18: a body line that starts with PRIMARY KEY, KEY , INDEX  or CONSTRAINT
\* gives no column entry; every PRIMARY KEY, KEY and INDEX line gives an
\* entry of the index listing; no line gives an entry to both listings.
C18_LineRouting ==
    parsed =>
        \A d \in DOMAIN documents :
            LET lines == DefinitionLines(documents[d].table_definition)
                columns == {f.at : f \in Range(documents[d].fields)}
                listed == {x.at : x \in Range(documents[d].indexes)}
            IN  /\ \A at \in DOMAIN lines :
                    /\ lines[at].first \in {"PRIMARY KEY", "KEY ", "INDEX ",
                                            "CONSTRAINT"} => at \notin columns
                    /\ lines[at].first \in {"PRIMARY KEY", "KEY ", "INDEX "}
                            => at \in listed
                /\ columns \cap listed = {}

\* the table name a DDL text declares
TableNameOf(toks) == toks[1].name

\* the column names a DDL text declares, in order
ColumnNamesOf(toks) ==
    LET cols == SelectSeq(toks, LAMBDA tok :
                    tok.t = "line" /\ tok.line.first \in {"quoted name", "word"})
    IN  [j \in DOMAIN cols |-> cols[j].line.name]

\* the index declarations a DDL text holds, in order
IndexDeclarationsOf(toks) ==
    LET decls == SelectSeq(toks, LAMBDA tok :
                    /\ tok.t = "line"
                    /\ tok.line.first \in {"PRIMARY KEY", "KEY ", "INDEX ",
                                           "UNIQUE KEY"})
    IN  [j \in DOMAIN decls |-> decls[j].line]

\* C19: for a text of valid DDL blocks the DDL rendered from each parsed
\* table declares the table name of its block, the same column names in
\* the same order and the same index declarations in the same order.
C19_RoundTrip ==
    parsed /\ (\A j \in DOMAIN schema_text : WellFormed(schema_text[j])) =>
        /\ Len(documents) = Len(schema_text)
        /\ \A j \in DOMAIN schema_text :
                LET original == TokensOf(schema_text[j])
                    again == documents[j].ddl
                IN  /\ again[1].t = "create"
                    /\ TableNameOf(again) = TableNameOf(original)
                    /\ ColumnNamesOf(again) = ColumnNamesOf(original)
                    /\ IndexDeclarationsOf(again) = IndexDeclarationsOf(original)

C19_Witness ==
    /\ parsed /\ Len(documents) = 1
    /\ ColumnNamesOf(documents[1].ddl) = <<"id", "amount">>
    /\ Len(IndexDeclarationsOf(documents[1].ddl)) = 1
    /\ IndexDeclarationsOf(documents[1].ddl)[1].first = "UNIQUE KEY"

\* C20: field_count of a table document is the number of column lines of
\* its body and the number of "- name: type" entries of its content (2 for
\* columns id and status); a table without parsed columns still has its
\* document, with field_count 0 and the "no field information" marker.
C20_FieldCount ==
    parsed =>
        /\ \A j \in DOMAIN schema_text :
                WellFormed(schema_text[j]) /\ Len(schema_text) = 1
                    => Len(documents) = 1
        /\ \A d \in DOMAIN documents :
            LET lines == DefinitionLines(documents[d].table_definition)
                column_lines == SelectSeq(lines,
                                    LAMBDA l : l.first = "quoted name")
            IN  /\ documents[d].field_count = Len(column_lines)
                /\ column_lines # <<>> =>
                    /\ Len(documents[d].fields_text) = documents[d].field_count
                    /\ \A k \in DOMAIN column_lines :
                        documents[d].fields_text[k] =
                            "  - " \o column_lines[k].name \o ": "
                                   \o column_lines[k].def
                                   \o (IF column_lines[k].comment = "" THEN ""
                                       ELSE "  // " \o column_lines[k].comment)
                /\ column_lines = <<>> =>
                    /\ documents[d].field_count = 0
                    /\ documents[d].fields_text = <<NO_FIELDS>>

C20_Witness ==
    /\ parsed /\ Len(documents) = 1
    /\ documents[1].field_count = 2
    /\ documents[1].fields_text =
            <<"  - id: int NOT NULL  // primary key",
              "  - status: varchar(20) DEFAULT NULL  // order status">>
    /\ Len(documents[1].table_definition) = 3
    /\ documents[1].indexes # <<>>

\* the rendered content of a document a loader built: the template filled
\* with the fields of the record, the timestamp is not part of it
Content(doc) == <<doc.type, doc.key, doc.ver>>

\* C21: the content_hash of every document a loader builds is the digest of
\* the document's rendered content; a record built again in a later run
\* (another created_at) has the same content and the same content_hash, and
\* two documents with the same content have the same content_hash.
C21_ContentHash ==
    pc = "LOAD_SOURCES" =>
        /\ \A d \in Range(all_documents) :
                d.content_hash = _calculate_content_hash(Content(d))
        /\ \A d \in Range(all_documents), e \in Range(index) :
                Content(d) = Content(e) => d.content_hash = e.content_hash
        /\ LET earlier == Merge(load_query_documents(sources_read[1], run - 1),
                                load_schema_documents(sources_read[2], run - 1))
           IN  /\ Len(earlier) = Len(all_documents)
               /\ \A k \in DOMAIN all_documents :
                    /\ Content(earlier[k]) = Content(all_documents[k])
                    /\ earlier[k].content_hash = all_documents[k].content_hash
                    /\ earlier[k].created_at # all_documents[k].created_at

C21_Witness ==
    /\ pc = "LOAD_SOURCES" /\ run = 2 /\ before.pc = "DONE"
    /\ sources_read = before.sources
    /\ \E d \in Range(all_documents), e \in Range(index) :
            /\ d.type = "business_query" /\ Content(d) = Content(e)
            /\ d.created_at = 2 /\ e.created_at = 1
            /\ d.content_hash = e.content_hash
    /\ \E d \in Range(all_documents) : d.type = "table_schema"

\* the final documents made of document doc, in order
Pieces(doc) ==
    SelectSeq(final_documents,
              LAMBDA f : f.type = doc.type /\ f.key = doc.key)

\* C22: the chunking step turns a document whose content is at most
\* chunk_size long (exactly chunk_size included) into one final document
\* with the same content and metadata; only longer documents are split.
C22_ShortDocumentsKept ==
    pc = "CHUNK" =>
        \A d \in Range(all_documents) :
            /\ d.len <= chunk_size => Pieces(d) = <<d>>
            /\ d.len > chunk_size =>
                    /\ Pieces(d) = split_documents(d)
                    /\ d \notin Range(final_documents)

C22_Witness ==
    /\ pc = "CHUNK"
    /\ \E d \in Range(all_documents) :
            d.len = chunk_size /\ Pieces(d) = <<d>>
    /\ \E d \in Range(all_documents) :
            d.len = chunk_size + 1 /\ Pieces(d) = split_documents(d)

\* ------------------------------------------------------------ text splitter
\* The chunk loop of build_vector_store at the level of characters: a
\* page_content is a sequence of characters, a chunk is the part lo .. hi of
\* it. RecursiveCharacterTextSplitter is built with chunk_size,
\* chunk_overlap, length_function=len and the separator list; it keeps the
\* separators (at the head of the piece that follows) and strips white space
\* off every chunk it joins.
SmallChunkSize == 3     \* chunk_size of the character-level specification
SmallOverlap == 1       \* chunk_overlap of the character-level specification
MaxTextLen == 6         \* longest page_content of the character-level specification

\* the characters told apart: a letter, a line break, a space, a comma
Characters == {"a", "nl", "sp", "dou"}

Whitespace == {"nl", "sp"}

\* separators=["\n\n", "\n", "。", "；", "，", " ", ""]
Separators ==
    << <<"nl", "nl">>, <<"nl">>, <<"ju">>, <<"fen">>, <<"dou">>, <<"sp">>, <<>> >>

\* rendered contents begin with the first label of the template and end
\* with the line break before the closing quotes
PageContents ==
    UNION {{<<"a">> \o mid \o <<"nl">> : mid \in [1 .. n -> Characters]} :
            n \in 0 .. (MaxTextLen - 2)}

Part(lo, hi) == [lo |-> lo, hi |-> hi]

PartLen(part) == part.hi - part.lo + 1

\* the separator stands at position at of txt, within .. hi
SeparatorAt(txt, at, hi, separator) ==
    /\ at + Len(separator) - 1 <= hi
    /\ \A j \in 1 .. Len(separator) : txt[at + j - 1] = separator[j]

\* re.search(_separator, text)
SeparatorFound(txt, lo, hi, separator) ==
    \E at \in lo .. hi : SeparatorAt(txt, at, hi, separator)

\* the matches re.split finds, left to right, not overlapping
RECURSIVE SeparatorStarts(_, _, _, _)
SeparatorStarts(txt, at, hi, separator) ==
    IF at > hi THEN <<>>
    ELSE IF SeparatorAt(txt, at, hi, separator)
    THEN <<at>> \o SeparatorStarts(txt, at + Len(separator), hi, separator)
    ELSE SeparatorStarts(txt, at + 1, hi, separator)

\* _split_text_with_regex(text, separator, keep_separator=True): every
\* piece but the first begins with the separator; empty pieces are dropped
_split_text_with_regex(txt, lo, hi, separator) ==
    IF separator = <<>>
    THEN [k \in 1 .. (hi - lo + 1) |-> Part(lo + k - 1, lo + k - 1)]
    ELSE LET cuts == <<lo>> \o SeparatorStarts(txt, lo, hi, separator)
             pieces == [k \in DOMAIN cuts |->
                            Part(cuts[k],
                                 IF k < Len(cuts) THEN cuts[k + 1] - 1 ELSE hi)]
         IN  SelectSeq(pieces, LAMBDA piece : piece.lo <= piece.hi)

\* text.strip(); None when nothing is left
StripWhitespace(txt, part) ==
    LET kept == {at \in part.lo .. part.hi : txt[at] \notin Whitespace}
    IN  IF kept = {} THEN <<>>
        ELSE <<Part(CHOOSE at \in kept : \A other \in kept : at <= other,
                    CHOOSE at \in kept : \A other \in kept : at >= other)>>

\* _join_docs(docs, ""): consecutive pieces joined, then stripped
_join_docs(txt, docs) ==
    IF docs = <<>> THEN <<>>
    ELSE StripWhitespace(txt, Part(docs[1].lo, docs[Len(docs)].hi))

RECURSIVE Total(_)
Total(docs) == IF docs = <<>> THEN 0 ELSE PartLen(Head(docs)) + Total(Tail(docs))

\* while total > chunk_overlap or (total + _len > chunk_size and total > 0):
\*     drop current_doc[0]
RECURSIVE DropHead(_, _)
DropHead(current_doc, len) ==
    IF \/ Total(current_doc) > SmallOverlap
       \/ Total(current_doc) + len > SmallChunkSize /\ Total(current_doc) > 0
    THEN DropHead(Tail(current_doc), len)
    ELSE current_doc

\* the loop of _merge_splits over the pieces not yet packed
RECURSIVE MergeFrom(_, _, _, _)
MergeFrom(txt, splits, current_doc, docs) ==
    IF splits = <<>> THEN docs \o _join_docs(txt, current_doc)
    ELSE LET d == Head(splits)
         IN  IF /\ Total(current_doc) + PartLen(d) > SmallChunkSize
                /\ current_doc # <<>>
             THEN MergeFrom(txt, Tail(splits),
                            Append(DropHead(current_doc, PartLen(d)), d),
                            docs \o _join_docs(txt, current_doc))
             ELSE MergeFrom(txt, Tail(splits), Append(current_doc, d), docs)

\* _merge_splits(splits, "")
_merge_splits(txt, splits) == MergeFrom(txt, splits, <<>>, <<>>)

\* the first separator of the list that is "" or occurs in the text
SeparatorIndex(txt, lo, hi, separators) ==
    CHOOSE k \in DOMAIN separators :
        /\ separators[k] = <<>> \/ SeparatorFound(txt, lo, hi, separators[k])
        /\ \A j \in 1 .. (k - 1) :
                /\ separators[j] # <<>>
                /\ ~SeparatorFound(txt, lo, hi, separators[j])

RECURSIVE _split_text(_, _, _, _)
RECURSIVE SplitLoop(_, _, _, _)

\* the loop of _split_text over the pieces: short pieces are collected and
\* merged, a long piece is split again with the separators that remain
SplitLoop(txt, splits, good_splits, new_separators) ==
    LET merged == IF good_splits # <<>> THEN _merge_splits(txt, good_splits)
                  ELSE <<>>
    IN  IF splits = <<>> THEN merged
        ELSE IF PartLen(Head(splits)) < SmallChunkSize
        THEN SplitLoop(txt, Tail(splits), Append(good_splits, Head(splits)),
                       new_separators)
        ELSE merged
             \o (IF new_separators = <<>> THEN <<Head(splits)>>
                 ELSE _split_text(txt, Head(splits).lo, Head(splits).hi,
                                  new_separators))
             \o SplitLoop(txt, Tail(splits), <<>>, new_separators)

\* RecursiveCharacterTextSplitter._split_text(text, separators)
_split_text(txt, lo, hi, separators) ==
    LET k == SeparatorIndex(txt, lo, hi, separators)
        new_separators == IF separators[k] = <<>> THEN <<>>
                          ELSE SubSeq(separators, k + 1, Len(separators))
    IN  SplitLoop(txt, _split_text_with_regex(txt, lo, hi, separators[k]),
                  <<>>, new_separators)

\* if doc_length > chunk_size: chunks = text_splitter.split_documents([doc])
\* else: final_documents.append(doc)
ChunksOf(txt) ==
    IF Len(txt) > SmallChunkSize
    THEN _split_text(txt, 1, Len(txt), Separators)
    ELSE <<Part(1, Len(txt))>>

InitSplitter ==
    /\ page_content \in PageContents
    /\ chunks = <<>>
    /\ split_done = FALSE
    /\ BuildIdle
    /\ RetrievalIdle
    /\ FormatterIdle
    /\ ParserIdle
    /\ ExtractorIdle
    /\ EnhancedIdle

\* one pass of the chunk loop over the document
SplitDocument ==
    /\ ~split_done
    /\ chunks' = ChunksOf(page_content)
    /\ split_done' = TRUE
    /\ UNCHANGED <<page_content, build_vars, retrieval_vars, formatter_vars,
                   parser_vars, extractor_vars, enhanced_vars>>

NextSplitter == SplitDocument

SpecSplitter == InitSplitter /\ [][NextSplitter]_vars

\* the positions of page_content that lie in some chunk
Covered == UNION {part.lo .. part.hi : part \in Range(chunks)}

\* C23: the chunks made of a document longer than the chunk size cover its
\* whole content: every character position lies in at least one chunk, the
\* chunks come in order, and no chunk is longer than the chunk size.
C23_ChunksCoverContent ==
    split_done /\ Len(page_content) > SmallChunkSize =>
        /\ Covered = 1 .. Len(page_content)
        /\ \A k \in DOMAIN chunks : PartLen(chunks[k]) <= SmallChunkSize
        /\ \A k \in 1 .. (Len(chunks) - 1) :
                /\ chunks[k].lo <= chunks[k + 1].lo
                /\ chunks[k].hi <= chunks[k + 1].hi

\* ------------------------------------------------- tables named in an sql text
\* An sql text is a sequence of words with white space between them; a word
\* is a sequence of atoms, an atom is a run of \w characters or one other
\* character. Of a run of \w characters the patterns and the filter see its
\* spelling, its upper-case spelling and the keyword it ends with.
MaxWords == 4           \* words of an enumerated sql text

Word(w, upper, ends) == [kind |-> "word", w |-> w, upper |-> upper, ends |-> ends]

Other(w) == [kind |-> "other", w |-> w, upper |-> w, ends |-> "none"]

\* the words of the texts, by their spelling
Vocabulary ==
    {<<Word("SELECT", "SELECT", "none")>>,
     <<Other("*")>>,
     <<Word("FROM", "FROM", "FROM")>>,
     <<Word("join", "JOIN", "JOIN")>>,
     <<Word("INTO", "INTO", "INTO")>>,
     <<Word("UPDATE", "UPDATE", "UPDATE")>>,
     <<Word("orders", "ORDERS", "none")>>,
     <<Word("users", "USERS", "none")>>,
     <<Word("db", "DB", "none"), Other("."), Word("orders", "ORDERS", "none")>>,
     <<Other("bq"), Word("db", "DB", "none"), Other("bq"), Other("."),
       Other("bq"), Word("orders", "ORDERS", "none"), Other("bq")>>,
     <<Word("last_update", "LAST_UPDATE", "UPDATE")>>,
     <<Other("("), Word("SELECT", "SELECT", "none")>>}

\* SELECT * FROM orders o JOIN users u ON ...
ExampleSql ==
    <<<<Word("SELECT", "SELECT", "none")>>, <<Other("*")>>,
      <<Word("FROM", "FROM", "FROM")>>, <<Word("orders", "ORDERS", "none")>>,
      <<Word("o", "O", "none")>>, <<Word("JOIN", "JOIN", "JOIN")>>,
      <<Word("users", "USERS", "none")>>, <<Word("u", "U", "none")>>,
      <<Word("ON", "ON", "none")>>, <<Other("...")>>>>

SqlTexts ==
    UNION {[1 .. n -> Vocabulary] : n \in 0 .. MaxWords} \cup {ExampleSql}

\* the spellings in the order of sorted(): upper case before lower case
SortedSpellings ==
    <<"FROM", "INTO", "JOIN", "ON", "SELECT", "UPDATE", "db", "join",
      "last_update", "o", "orders", "u", "users">>

Rank(w) == CHOOSE k \in DOMAIN SortedSpellings : SortedSpellings[k] = w

\* the keywords of the four patterns
Patterns == <<"FROM", "JOIN", "INTO", "UPDATE">>

\* not in ['SELECT', 'WHERE', 'GROUP', 'ORDER', 'HAVING']
EXCLUDED == {"SELECT", "WHERE", "GROUP", "ORDER", "HAVING"}

\* the pattern's keyword ends the word, with white space behind it
KeywordEnds(word, keyword) ==
    /\ word[Len(word)].kind = "word"
    /\ word[Len(word)].ends = keyword

IsWordAt(word, at) == at <= Len(word) /\ word[at].kind = "word"

IsOtherAt(word, at, w) ==
    at <= Len(word) /\ word[at].kind = "other" /\ word[at].w = w

\* `?(\w+\.)?(\w+)`? at the head of a word: group 2 and the atoms consumed
Capture(word) ==
    LET first == IF IsOtherAt(word, 1, "bq") THEN 2 ELSE 1
        closed(at) == IF IsOtherAt(word, at + 1, "bq") THEN at + 1 ELSE at
    IN  IF ~IsWordAt(word, first) THEN [found |-> FALSE]
        ELSE IF IsOtherAt(word, first + 1, ".") /\ IsWordAt(word, first + 2)
        THEN [found |-> TRUE, table_name |-> word[first + 2],
              end |-> closed(first + 2)]
        ELSE [found |-> TRUE, table_name |-> word[first],
              end |-> closed(first)]

\* re.finditer(pattern, sql, re.IGNORECASE): the table names of the matches
\* from word at on, left to right, not overlapping
RECURSIVE FindIter(_, _, _)
FindIter(text, keyword, at) ==
    IF at >= Len(text) THEN <<>>
    ELSE LET capture == Capture(text[at + 1])
         IN  IF KeywordEnds(text[at], keyword) /\ capture.found
             THEN <<capture.table_name>>
                  \o FindIter(text, keyword,
                              IF capture.end = Len(text[at + 1])
                              THEN at + 2 ELSE at + 1)
             ELSE FindIter(text, keyword, at + 1)

\* if table_name and table_name.upper() not in [...]: tables.add(table_name)
Added(text) ==
    {atom.w : atom \in
        {a \in UNION {Range(FindIter(text, Patterns[k], 1)) :
                        k \in DOMAIN Patterns} : a.upper \notin EXCLUDED}}

\* sorted(list(tables))
RECURSIVE Sorted(_)
Sorted(names) ==
    IF names = {} THEN <<>>
    ELSE LET least == CHOOSE w \in names :
                        \A other \in names : Rank(w) <= Rank(other)
         IN  <<least>> \o Sorted(names \ {least})

_extract_tables_from_sql(text) == Sorted(Added(text))

InitExtractor ==
    /\ sql \in SqlTexts
    /\ tables = <<>>
    /\ extracted = FALSE
    /\ BuildIdle
    /\ RetrievalIdle
    /\ FormatterIdle
    /\ ParserIdle
    /\ SplitterIdle
    /\ EnhancedIdle

\* tables = self._extract_tables_from_sql(sql)
ExtractTables ==
    /\ ~extracted
    /\ tables' = _extract_tables_from_sql(sql)
    /\ extracted' = TRUE
    /\ UNCHANGED <<sql, build_vars, retrieval_vars, formatter_vars,
                   parser_vars, splitter_vars, enhanced_vars>>

NextExtractor == ExtractTables

SpecExtractor == InitExtractor /\ [][NextExtractor]_vars

\* the word is one of the four keywords, in any letter case
IsKeyword(word) ==
    /\ Len(word) = 1
    /\ word[1].kind = "word"
    /\ word[1].upper \in Range(Patterns)

\* the table a word names: its last identifier, the database prefix dropped
ReferencedTable(word) ==
    LET names == SelectSeq(word, LAMBDA atom : atom.kind = "word")
    IN  IF names # <<>> /\ (IsWordAt(word, 1) \/ IsOtherAt(word, 1, "bq"))
        THEN {names[Len(names)].w}
        ELSE {}

\* C24: the table list of an sql text is sorted ascending without
\* duplicates, holds only identifiers that directly follow FROM, JOIN, INTO
\* or UPDATE in any letter case, with the database prefix dropped, holds
\* none of SELECT, WHERE, GROUP, ORDER, HAVING in any letter case, and is
\* exactly orders, users for SELECT * FROM orders o JOIN users u ON ...
C24_ReferencedTables ==
    extracted =>
        /\ \A k \in 1 .. (Len(tables) - 1) : Rank(tables[k]) < Rank(tables[k + 1])
        /\ \A name \in Range(tables) :
                \E at \in 1 .. (Len(sql) - 1) :
                    /\ IsKeyword(sql[at])
                    /\ name \in ReferencedTable(sql[at + 1])
        /\ \A name \in Range(tables) :
                \A at \in DOMAIN sql :
                    \A atom \in Range(sql[at]) :
                        atom.w = name => atom.upper \notin EXCLUDED
        /\ sql = ExampleSql => tables = <<"orders", "users">>

\* --------------------------------------------- build_knowledge_base_enhanced
\* main of build_knowledge_base_enhanced.py after the three data files are
\* loaded: the requirement documents are built and stored, then the table
\* documents. A JSON object is a function of its keys; a dict is the
\* sequence of its (key, value) pairs in file order.
MaxRecords == 2         \* entries of the table file, items of the dictionary

\* value.get(key, default)
Get(obj, key, default) == IF key \in DOMAIN obj THEN obj[key] ELSE default

Entries(keys, values) ==
    UNION {{[k \in 1 .. n |-> [key |-> keys[k], value |-> vs[k]]] :
                vs \in [1 .. n -> values]} : n \in 0 .. Min(MaxRecords, Len(keys))}

MetaValues ==
    {[id |-> "7", table_name |-> "orders", chunk_content |-> "orders: loan orders"],
     [table_name |-> "orders"],
     [table_name |-> "users", chunk_content |-> "users: borrowers"],
     [id |-> "8", chunk_content |-> "a table without name"]}

DictItems ==
    {[table_name |-> "orders", column_description |-> "amount: loan amount"],
     [table_name |-> "orders", column_description |-> ""],
     [table_name |-> "orders"],
     [column_description |-> "status: order status"],
     [table_name |-> "users", column_description |-> "phone: mobile number"]}

QueryValues ==
    {[name |-> "loan amount", business_requirement |-> "loan amount per day"],
     [name |-> "loan amount"],
     [business_requirement |-> "loan amount per day"]}

MetaDatas == Entries(<<"t1", "t2", "t3", "t4">>, MetaValues)

DictDatas ==
    UNION {[1 .. n -> DictItems] : n \in 0 .. MaxRecords}

QueryDatas ==
    {<<>>} \cup {<<[key |-> "101", value |-> v]>> : v \in QueryValues}

\* Document(page_content=full_content, metadata={...}) of
\* build_query_requirements_kb
RequirementDocument(query_id, value) ==
    LET name == Get(value, "name", "")
        requirement == Get(value, "business_requirement", "")
    IN  [page_content |-> "query id: " \o query_id \o " / query name: " \o name
                            \o " / business requirement: " \o requirement,
         metadata |-> [query_id |-> query_id, name |-> name,
                       requirement |-> requirement,
                       source |-> "query_business_requirements"]]

build_query_requirements_kb(data) ==
    [k \in DOMAIN data |-> RequirementDocument(data[k].key, data[k].value)]

UsableMutant(item) == Get(item, "column_description", "") # ""

\* if table_name and column_desc:
Usable(item) ==
    /\ Get(item, "table_name", "") # ""
    /\ Get(item, "column_description", "") # ""

\* dict_map after the loop over dict_data: a later item replaces an earlier one
RECURSIVE DictMap(_)
DictMap(items) ==
    IF items = <<>> THEN <<>>
    ELSE LET earlier == DictMap(SubSeq(items, 1, Len(items) - 1))
             item == items[Len(items)]
             table_name == Get(item, "table_name", "")
         IN  IF Usable(item)
             THEN [n \in DOMAIN earlier \cup {table_name} |->
                        IF n = table_name
                        THEN Get(item, "column_description", "")
                        ELSE earlier[n]]
             ELSE earlier

\* "\n\n补充字段说明:\n"
SUPPLEMENT == " / supplementary column description: "

\* Document(page_content=full_content, metadata={...}) of build_meta_tables_kb
MetaTableDocument(key, value, dict_map) ==
    LET table_name == Get(value, "table_name", "")
        chunk_content == Get(value, "chunk_content", "")
        column_description == Get(dict_map, table_name, "")
    IN  [page_content |-> IF column_description # ""
                          THEN chunk_content \o SUPPLEMENT \o column_description
                          ELSE chunk_content,
         metadata |-> [table_id |-> Get(value, "id", key),
                       table_name |-> table_name,
                       chunk_content |-> chunk_content,
                       column_description |-> column_description,
                       source |-> "singabi_meta_tables and singabi_data_dictionary"]]

build_meta_tables_kb(meta, dict) ==
    [k \in DOMAIN meta |->
        MetaTableDocument(meta[k].key, meta[k].value, DictMap(dict))]

InitEnhanced ==
    /\ query_data \in QueryDatas
    /\ meta_data \in MetaDatas
    /\ dict_data \in DictDatas
    /\ query_kb = <<>>
    /\ table_kb = <<>>
    /\ main_pc = "loaded"
    /\ BuildIdle
    /\ RetrievalIdle
    /\ FormatterIdle
    /\ ParserIdle
    /\ SplitterIdle
    /\ ExtractorIdle

\* query_documents = build_query_requirements_kb(query_data);
\* create_vector_store(query_documents, ...): Chroma.from_documents may raise
BuildQueryKb ==
    /\ main_pc = "loaded"
    /\ \E outcome \in {"ok", "error"} :
        IF outcome = "ok"
        THEN /\ query_kb' = build_query_requirements_kb(query_data)
             /\ main_pc' = "query_kb"
        ELSE /\ main_pc' = "raised"
             /\ UNCHANGED query_kb
    /\ UNCHANGED <<query_data, meta_data, dict_data, table_kb, build_vars,
                   retrieval_vars, formatter_vars, parser_vars, splitter_vars,
                   extractor_vars>>

\* table_documents = build_meta_tables_kb(meta_data, dict_data);
\* create_vector_store(table_documents, ...)
BuildTableKb ==
    /\ main_pc = "query_kb"
    /\ \E outcome \in {"ok", "error"} :
        IF outcome = "ok"
        THEN /\ table_kb' = build_meta_tables_kb(meta_data, dict_data)
             /\ main_pc' = "done"
        ELSE /\ main_pc' = "raised"
             /\ UNCHANGED table_kb
    /\ UNCHANGED <<query_data, meta_data, dict_data, query_kb, build_vars,
                   retrieval_vars, formatter_vars, parser_vars, splitter_vars,
                   extractor_vars>>

NextEnhanced == BuildQueryKb \/ BuildTableKb

SpecEnhanced == InitEnhanced /\ [][NextEnhanced]_vars

\* the metadata fields format_table_results reads
TABLE_FIELDS == {"table_id", "table_name", "chunk_content", "column_description"}

\* the metadata fields format_requirement_results reads
REQUIREMENT_FIELDS == {"query_id", "name", "requirement"}

\* the dictionary has a description that is not empty for the table name;
\* a record or an item without table name names no table
Described(table_name) ==
    /\ table_name # ""
    /\ \E k \in DOMAIN dict_data :
            /\ Get(dict_data[k], "table_name", "") = table_name
            /\ Get(dict_data[k], "column_description", "") # ""

\* C25: every document of the table knowledge base has the metadata keys
\* table_id, table_name, chunk_content and column_description, every
\* document of the requirement knowledge base has query_id, name and
\* requirement (the fields the formatters read), and the supplementary
\* column description is appended to the content of a table document
\* exactly when the dictionary has a description that is not empty for the
\* table name of the document.
C25_MetadataFields ==
    /\ \A k \in DOMAIN table_kb :
            /\ TABLE_FIELDS \subseteq DOMAIN table_kb[k].metadata
            /\ table_kb[k].metadata.chunk_content
                    = Get(meta_data[k].value, "chunk_content", "")
            /\ Described(table_kb[k].metadata.table_name)
                <=> /\ table_kb[k].metadata.column_description # ""
                    /\ table_kb[k].page_content =
                            table_kb[k].metadata.chunk_content \o SUPPLEMENT
                                \o table_kb[k].metadata.column_description
            /\ ~Described(table_kb[k].metadata.table_name)
                <=> table_kb[k].page_content = table_kb[k].metadata.chunk_content
    /\ \A k \in DOMAIN query_kb :
            REQUIREMENT_FIELDS \subseteq DOMAIN query_kb[k].metadata
    /\ main_pc = "done" => Len(table_kb) = Len(meta_data)
    /\ main_pc \in {"query_kb", "done"} => Len(query_kb) = Len(query_data)

C25_Witness ==
    /\ main_pc = "done"
    /\ Len(query_kb) = 1 /\ Len(table_kb) = 2
    /\ "name" \notin DOMAIN query_data[1].value
    /\ "id" \notin DOMAIN meta_data[1].value
    /\ table_kb[1].metadata.table_id = "t1"
    /\ "table_name" \notin DOMAIN meta_data[2].value
    /\ table_kb[1].metadata.column_description # ""
    /\ table_kb[2].metadata.column_description = ""
    /\ table_kb[2].metadata.table_name = ""
    /\ \E k \in DOMAIN dict_data : "table_name" \notin DOMAIN dict_data[k]

\* C26: whatever batch_size the builder was made with, a run that ends in
\* DONE has upserted every final document exactly once during that run.
C26_DoneMeansUpserted ==
    pc = "DONE" =>
        /\ Flatten(calls) = final_documents
        /\ embedded = Len(final_documents)

\* C27: after a successful run without force_rebuild over the source files a
\* successful run before it read, the persisted index holds each final
\* document once: its entry count is the count after the earlier run.
C27_RebuildIdempotent ==
    (/\ pc = "DONE" /\ before.pc = "DONE"
     /\ ~force_rebuild
     /\ sources_read = before.sources)
        => /\ Len(index) = Len(before.index)
           /\ Len(index) = Len(final_documents)

\* total = query + schema, and final documents = total + chunks created
Balanced(st, final_count) ==
    /\ st.total_documents = st.query_documents + st.schema_documents
    /\ final_count = st.total_documents + st.chunks_created

\* C28: in a run that reaches the upsert step the statistics satisfy
\* total_documents = query_documents + schema_documents and the number of
\* final documents is total_documents + chunks_created; the statistics a
\* successful run persists satisfy the same equalities.
C28_StatsBalanced ==
    /\ path # "none" => Balanced(stats, Len(final_documents))
    /\ pc = "DONE" => Balanced(stats_file.stats, Len(final_documents))


\* C29: the percentage the formatters render is monotone in the distance:
\* of two results of one list with distances d1 <= d2, the one at d1 is
\* shown with a percentage at least that of the one at d2, for distances
\* on both sides of 1.
C29_MonotoneRelevance ==
    result_text # NoResponse /\ result_text.kind = "results" =>
        \A j, k \in DOMAIN results :
            results[j].score <= results[k].score =>
                result_text.blocks[j].similarity
                    >= result_text.blocks[k].similarity


\* C30: in kb_mcp_server and biai_server a knowledge base whose directory
\* was missing or failed to load when the server was created stays None for
\* the life of the server: every kb_search_tables (kb_search_requirements)
\* call answers with the "not initialised" text and sends no search to a
\* store, also after the knowledge base has been built, while the tool of
\* the other knowledge base, if that one loaded, goes on searching its store.
C30_StaysUninitialised ==
    server_module \in TwoStoreServers =>
        /\ kb_paths.created.tables # "loaded" =>
            /\ TABLE_VECTORSTORE = NoneValue
            /\ request.tool = "kb_search_tables" =>
                /\ response = Message("not_initialised", TableNotInitialised)
                /\ store_call = NoStoreCall
        /\ kb_paths.created.requirements # "loaded" =>
            /\ QUERY_VECTORSTORE = NoneValue
            /\ request.tool = "kb_search_requirements" =>
                /\ response = Message("not_initialised", RequirementNotInitialised)
                /\ store_call = NoStoreCall
        /\ kb_paths.created.tables = "loaded"
                /\ request.tool = "kb_search_tables" =>
            /\ response.kind # "not_initialised"
            /\ store_call # NoStoreCall
            /\ store_call.store = "TABLE_VECTORSTORE"
        /\ kb_paths.created.requirements = "loaded"
                /\ request.tool = "kb_search_requirements" =>
            /\ response.kind # "not_initialised"
            /\ store_call # NoStoreCall
            /\ store_call.store = "QUERY_VECTORSTORE"

\* the table knowledge base failed to load at start and has been built
\* since; the requirement tool has returned results and the table tool
\* has answered "not initialised"
C30_Witness ==
    /\ server_module = "kb_mcp_server"
    /\ kb_paths.created = [tables |-> "load_error", requirements |-> "loaded"]
    /\ kb_paths.now.tables = "loaded"
    /\ answers = <<"results", "not_initialised">>
    /\ request.tool = "kb_search_tables"
    /\ response.text = TableNotInitialised

====
